---- MODULE Spec2Model ----
(***************************************************************************)
(* A model of src/ran_demo.py: the three radio-resource simulators         *)
(* simulate_das (with its baseline simulate_pf), simulate_csi_smoothing    *)
(* and simulate_fragmentation_aware, and the process-wide numpy generator  *)
(* they all draw from.                                                     *)
(*                                                                         *)
(* Numbers.  Python floats are modelled as fixed-point integers in         *)
(* thousandths (10.0 is 10000); FMul and FDiv round towards minus          *)
(* infinity.  Packet counts, remaining times, delays, demands, deadlines   *)
(* and capacities are Python ints and stay integers.  A value returned by  *)
(* numpy.mean is a record [nan, val], because the mean of an empty list is *)
(* nan.                                                                    *)
(*                                                                         *)
(* Randomness.  numpy's global generator is a deterministic generator      *)
(* whose state is the variable rng: a draw is a function of the state and  *)
(* advances it, and np.random.seed(s) sets the state from s alone.  An     *)
(* unseeded process starts in an arbitrary state.                          *)
(*                                                                         *)
(* Control.  Each invocation r has a frame local[r] (its local variables   *)
(* and its position pc in the body of the function); one action models     *)
(* one block of the slot loop.                                             *)
(***************************************************************************)
EXTENDS Integers, Sequences, FiniteSets, TLC

VARIABLES rng, args, local, result, threaded

vars == <<rng, args, local, result, threaded>>

\* ------------------------------------------------------------- bounds
RngModulus == 4096
MaxSeed == 2
MaxEntropy == 1
ShortSlots == 7
LongSlots == 52
MaxUsers == 2
ConcSlots == 1
WideUsers == 11
MaxFragEntropy == 11

Runs == 1..2

\* ------------------------------------------------------- fixed point
FP == 1000
Fix(n) == n * FP
FMul(a, b) == (a * b) \div FP
FDiv(a, b) == (a * FP) \div b
Max(a, b) == IF a >= b THEN a ELSE b
Min(a, b) == IF a <= b THEN a ELSE b
Abs(a) == IF a >= 0 THEN a ELSE 0 - a

RECURSIVE SumSeq(_)
SumSeq(s) == IF s = <<>> THEN 0 ELSE Head(s) + SumSeq(Tail(s))

\* numpy.mean: nan for an empty list
NpMean(s) ==
    IF Len(s) = 0 THEN [nan |-> TRUE, val |-> 0]
    ELSE [nan |-> FALSE, val |-> SumSeq(s) \div Len(s)]

Float(v) == [nan |-> FALSE, val |-> v]

\* fault: history[:50]
FirstN(s, n) == IF Len(s) <= n THEN s ELSE SubSeq(s, 1, n)

\* history[-50:]
HistoryWindow == 50
LastN(s, n) == IF Len(s) <= n THEN s ELSE SubSeq(s, Len(s) - n + 1, Len(s))

\* ---------------------------------------------- the global generator
NoSeed == 0 - 1
RngNext(g) == (g * 1229 + 1) % RngModulus
SeedState(seed) == (seed * 2654 + 977) % RngModulus
\* np.random.random() < p, p in thousandths
RandomLt(g, p) == g * FP < p * RngModulus
\* np.random.uniform(lo, hi), lo and hi in thousandths
Uniform(g, lo, hi) == lo + ((hi - lo) * g) \div RngModulus
\* np.random.normal(0, sigma): nine equally likely steps in [-2 sigma, 2 sigma]
Normal(g, sigma) == (sigma * ((9 * g) \div RngModulus - 4)) \div 2
\* np.random.randint(lo, hi): an integer in lo..hi-1
RandInt(g, lo, hi) == lo + ((hi - lo) * g) \div RngModulus

\* ===================================================================
\* SOLUTION 1: simulate_das / simulate_pf
\* ===================================================================
\* fault: user 5 is still a URLLC user
ServiceTypeOffByOne(i) == IF i <= 5 THEN "URLLC" ELSE IF i < 10 THEN "eMBB" ELSE "mMTC"
ServiceType(i) == IF i < 5 THEN "URLLC" ELSE IF i < 10 THEN "eMBB" ELSE "mMTC"
Pdb(i) == IF i < 5 THEN 5 ELSE IF i < 10 THEN 20 ELSE 50

\* the User dataclass, as built by users.append(User(...))
NewUser(i, g) ==
    [id |-> i,
     service_type |-> ServiceType(i),
     instantaneous_rate |-> Uniform(g, 5000, 20000),
     avg_throughput |-> 10000,
     packets |-> <<>>,
     pdb |-> Pdb(i)]

\* for i in range(num_users): users.append(...)
RECURSIVE InitUsers(_, _, _)
InitUsers(users, g, n) ==
    IF Len(users) >= n THEN [users |-> users, g |-> g]
    ELSE InitUsers(Append(users, NewUser(Len(users), g)), RngNext(g), n)

\* fault: the seed argument is never applied
SeedIgnored(seed, g) == g

\* if seed is not None: np.random.seed(seed)
SeedGenerator(seed, g) == IF seed # NoSeed THEN SeedState(seed) ELSE g

Ids(users) == {users[k].id : k \in 1..Len(users)}

\* a local not yet assigned
Unbound == 0 - 1

\* the frame of a simulate_das call on entry (its parameters bound)
DasFrame(beta, num_slots, num_users, seed) ==
    [fn |-> "das", pc |-> "das_init",
     beta |-> beta, num_slots |-> num_slots, num_users |-> num_users, seed |-> seed,
     users |-> <<>>, timeouts |-> <<>>, total_packets |-> <<>>, delays |-> <<>>,
     throughput_history |-> <<>>, slot |-> 0,
     priorities |-> <<>>, selected_user_id |-> Unbound, transmitted_bytes |-> 0]

\* for slot in range(num_slots): the loop test
DasLoop(f) == IF f.slot < f.num_slots THEN "das_arrive" ELSE "das_return"

\* lines 25-51: seeding, the users and the counters
DasInitFn(f, g) ==
    LET g0 == SeedGenerator(f.seed, g)
        iu == InitUsers(<<>>, g0, f.num_users)
        ids == Ids(iu.users)
        f1 == [f EXCEPT !.users = iu.users,
                        !.timeouts = [i \in ids |-> 0],
                        !.total_packets = [i \in ids |-> 0],
                        !.delays = [i \in ids |-> <<>>],
                        !.throughput_history = <<>>]
    IN [f |-> [f1 EXCEPT !.pc = DasLoop(f1)], g |-> iu.g]

\* fault: a new packet is put at the head of the queue
RECURSIVE GeneratePacketsAtHead(_, _, _, _)
GeneratePacketsAtHead(users, total_packets, g, k) ==
    IF k > Len(users) THEN [users |-> users, total_packets |-> total_packets, g |-> g]
    ELSE IF RandomLt(g, 300)
         THEN LET g1 == RngNext(g)
                  size == Uniform(g1, 1000, 5000)
                  packet == [remaining_time |-> users[k].pdb, size |-> size]
              IN GeneratePacketsAtHead([users EXCEPT ![k].packets = <<packet>> \o @],
                                       [total_packets EXCEPT ![users[k].id] = @ + 1],
                                       RngNext(g1), k + 1)
         ELSE GeneratePacketsAtHead(users, total_packets, RngNext(g), k + 1)

\* lines 54-59: generate new packets
RECURSIVE GeneratePackets(_, _, _, _)
GeneratePackets(users, total_packets, g, k) ==
    IF k > Len(users) THEN [users |-> users, total_packets |-> total_packets, g |-> g]
    ELSE IF RandomLt(g, 300)
         THEN LET g1 == RngNext(g)
                  size == Uniform(g1, 1000, 5000)
                  packet == [remaining_time |-> users[k].pdb, size |-> size]
              IN GeneratePackets([users EXCEPT ![k].packets = Append(@, packet)],
                                 [total_packets EXCEPT ![users[k].id] = @ + 1],
                                 RngNext(g1), k + 1)
         ELSE GeneratePackets(users, total_packets, RngNext(g), k + 1)

DasArriveFn(f, g) ==
    LET gp == GeneratePackets(f.users, f.total_packets, g, 1)
    IN [f |-> [f EXCEPT !.users = gp.users, !.total_packets = gp.total_packets,
                        !.pc = "das_age"],
        g |-> gp.g]

\* fault: only the packet at the head of the queue is aged
AgeHeadOnly(packets) ==
    [j \in 1..Len(packets) |->
        IF j = 1 THEN [packets[j] EXCEPT !.remaining_time = @ - 1] ELSE packets[j]]

\* fault: the packet at the tail of the queue (the newest) is not aged
AgeQueuedOnly(packets) ==
    [j \in 1..Len(packets) |->
        IF j = Len(packets) THEN packets[j]
        ELSE [packets[j] EXCEPT !.remaining_time = @ - 1]]

\* lines 61-64: age packets
AgePackets(packets) ==
    [j \in 1..Len(packets) |-> [packets[j] EXCEPT !.remaining_time = @ - 1]]

DasAgeFn(f, g) ==
    [f |-> [f EXCEPT !.users = [k \in 1..Len(f.users) |->
                                   [f.users[k] EXCEPT !.packets = AgePackets(@)]],
                     !.pc = "das_priorities"],
     g |-> g]

\* lines 69-76: W1, the delay criticality of a user's buffer
RECURSIVE W1Sum(_, _, _)
W1Sum(packets, total_buffer, pdb) ==
    IF packets = <<>> THEN 0
    ELSE LET p == Head(packets)
             rt == p.remaining_time
             term == IF rt > 0
                     THEN FMul(FDiv(p.size, total_buffer),
                               Max(0, FP - FDiv(Fix(rt), Fix(pdb))))
                     ELSE 0
         IN term + W1Sum(Tail(packets), total_buffer, pdb)

TotalBuffer(packets) == SumSeq([j \in 1..Len(packets) |-> packets[j].size])

W1(user) ==
    LET total_buffer == TotalBuffer(user.packets)
    IN IF total_buffer > 0 THEN W1Sum(user.packets, total_buffer, user.pdb) ELSE 0

\* line 78: W2, the proportional-fair metric
W2(user) == FDiv(user.instantaneous_rate, Max(user.avg_throughput, 1))

\* fault: the two weights are exchanged
PrioritySwapped(beta, user) == FMul(FP - beta, W1(user)) + FMul(beta, W2(user))

\* line 79
Priority(beta, user) == FMul(beta, W1(user)) + FMul(FP - beta, W2(user))

ComputePriorities(beta, users) ==
    [i \in Ids(users) |-> Priority(beta, users[i + 1])]

DasPrioritiesFn(f, g) ==
    [f |-> [f EXCEPT !.priorities = ComputePriorities(f.beta, f.users),
                     !.pc = "das_select"],
     g |-> g]

\* fault: the last key whose value is the maximum
MaxKeyLast(priorities) ==
    CHOOSE i \in DOMAIN priorities :
        /\ \A j \in DOMAIN priorities : priorities[j] <= priorities[i]
        /\ \A j \in DOMAIN priorities : j > i => priorities[j] < priorities[i]

\* max(priorities, key=priorities.get): the first key, in insertion order,
\* whose value is the maximum
MaxKey(priorities) ==
    CHOOSE i \in DOMAIN priorities :
        /\ \A j \in DOMAIN priorities : priorities[j] <= priorities[i]
        /\ \A j \in DOMAIN priorities : j < i => priorities[j] < priorities[i]

\* line 93
Ewma(avg, sample) == FMul(900, avg) + FMul(100, sample)

\* fault: the delay is counted from the slot after the arrival
ServeUserFromZero(f, k) ==
    LET user == f.users[k]
        packet == Head(user.packets)
        delay == user.pdb - packet.remaining_time - 1
    IN [f EXCEPT !.users[k].packets = Tail(@),
                 !.users[k].avg_throughput = Ewma(@, packet.size),
                 !.delays[user.id] = Append(@, delay),
                 !.transmitted_bytes = @ + packet.size]

\* lines 86-93: serve the selected user's oldest packet
ServeUser(f, k) ==
    LET user == f.users[k]
        packet == Head(user.packets)
        delay == user.pdb - packet.remaining_time
    IN [f EXCEPT !.users[k].packets = Tail(@),
                 !.users[k].avg_throughput = Ewma(@, packet.size),
                 !.delays[user.id] = Append(@, delay),
                 !.transmitted_bytes = @ + packet.size]

\* fault: when the selected user has nothing queued, the first user with a
\* queued packet is served instead
DasSelectFallback(f, g) ==
    LET f0 == [f EXCEPT !.transmitted_bytes = 0, !.pc = "das_sweep"]
        busy == {k \in 1..Len(f.users) : f.users[k].packets # <<>>}
    IN IF DOMAIN f.priorities = {} THEN [f |-> f0, g |-> g]
       ELSE LET sel == MaxKey(f.priorities)
                f1 == [f0 EXCEPT !.selected_user_id = sel]
            IN IF f1.users[sel + 1].packets # <<>>
               THEN [f |-> ServeUser(f1, sel + 1), g |-> g]
               ELSE IF busy # {}
               THEN [f |-> ServeUser(f1, CHOOSE k \in busy : \A j \in busy : k <= j),
                     g |-> g]
               ELSE [f |-> f1, g |-> g]

\* lines 81-93: select and serve one packet
DasSelectFn(f, g) ==
    LET f0 == [f EXCEPT !.transmitted_bytes = 0, !.pc = "das_sweep"]
    IN IF DOMAIN f.priorities = {} THEN [f |-> f0, g |-> g]
       ELSE LET sel == MaxKey(f.priorities)
                f1 == [f0 EXCEPT !.selected_user_id = sel]
            IN IF f1.users[sel + 1].packets # <<>>
               THEN [f |-> ServeUser(f1, sel + 1), g |-> g]
               ELSE [f |-> f1, g |-> g]

\* fault: every queued packet is counted as expired
ExpiredAll(packets) == packets

\* fault: a packet whose remaining_time is exactly 0 is not counted
ExpiredStrict(packets) == SelectSeq(packets, LAMBDA p : p.remaining_time < 0)

\* fault: a packet whose remaining_time is 0 stays in the queue
AliveAtZero(packets) == SelectSeq(packets, LAMBDA p : p.remaining_time >= 0)

\* lines 97-99
Expired(packets) == SelectSeq(packets, LAMBDA p : p.remaining_time <= 0)
Alive(packets) == SelectSeq(packets, LAMBDA p : p.remaining_time > 0)

\* lines 95-99: check for timeouts
DasSweepFn(f, g) ==
    [f |-> [f EXCEPT !.timeouts = [i \in DOMAIN f.timeouts |->
                                      f.timeouts[i] + Len(Expired(f.users[i + 1].packets))],
                     !.users = [k \in 1..Len(f.users) |->
                                   [f.users[k] EXCEPT !.packets = Alive(@)]],
                     !.pc = "das_channel"],
     g |-> g]

\* lines 105-106: update channel conditions
RECURSIVE UpdateChannel(_, _, _)
UpdateChannel(users, g, k) ==
    IF k > Len(users) THEN [users |-> users, g |-> g]
    ELSE UpdateChannel(
             [users EXCEPT ![k].instantaneous_rate = Max(1000, @ + Normal(g, 2000))],
             RngNext(g), k + 1)

\* lines 101-106, and the step to the next slot
DasChannelFn(f, g) ==
    LET uc == UpdateChannel(f.users, g, 1)
        f1 == [f EXCEPT !.throughput_history = Append(@, f.transmitted_bytes),
                        !.users = uc.users,
                        !.slot = @ + 1]
    IN [f |-> [f1 EXCEPT !.pc = DasLoop(f1)], g |-> uc.g]

\* lines 108-117: the aggregates
RECURSIVE UrllcSum(_, _)
UrllcSum(users, counter) ==
    IF users = <<>> THEN 0
    ELSE (IF Head(users).service_type = "URLLC" THEN counter[Head(users).id] ELSE 0)
         + UrllcSum(Tail(users), counter)

RECURSIVE UrllcDelays(_, _)
UrllcDelays(users, delays) ==
    IF users = <<>> THEN <<>>
    ELSE (IF Head(users).service_type = "URLLC" THEN delays[Head(users).id] ELSE <<>>)
         \o UrllcDelays(Tail(users), delays)

UrllcTimeoutRate(f) ==
    FDiv(Fix(UrllcSum(f.users, f.timeouts)),
         Fix(Max(UrllcSum(f.users, f.total_packets), 1))) * 100

\* fault: the mean is taken without the any(...) guard
AvgUrllcDelayUnguarded(f) ==
    LET ds == UrllcDelays(f.users, f.delays)
    IN NpMean([j \in 1..Len(ds) |-> Fix(ds[j])])

AvgUrllcDelay(f) ==
    LET ds == UrllcDelays(f.users, f.delays)
    IN IF ds # <<>> THEN NpMean([j \in 1..Len(ds) |-> Fix(ds[j])]) ELSE Float(0)

DasResult(f) ==
    [urllc_timeout_rate |-> UrllcTimeoutRate(f),
     avg_urllc_delay |-> AvgUrllcDelay(f),
     avg_throughput |-> IF f.throughput_history # <<>>
                        THEN NpMean(f.throughput_history) ELSE Float(0),
     throughput_history |-> LastN(f.throughput_history, HistoryWindow)]

\* one block of simulate_das, as a function of the frame and the generator
DasStepFn(f, g) ==
    CASE f.pc = "das_init" -> DasInitFn(f, g)
      [] f.pc = "das_arrive" -> DasArriveFn(f, g)
      [] f.pc = "das_age" -> DasAgeFn(f, g)
      [] f.pc = "das_priorities" -> DasPrioritiesFn(f, g)
      [] f.pc = "das_select" -> DasSelectFn(f, g)
      [] f.pc = "das_sweep" -> DasSweepFn(f, g)
      [] f.pc = "das_channel" -> DasChannelFn(f, g)

\* fault: the baseline called with beta=1.0
PfBetaDelayOnly == FP

\* line 121: simulate_pf binds beta=0.0 and calls simulate_das
PfBeta == 0

\* simulate_das run to its return statement from generator state g
RECURSIVE RunDas(_, _)
RunDas(f, g) ==
    IF f.pc = "das_return" THEN DasResult(f)
    ELSE LET n == DasStepFn(f, g) IN RunDas(n.f, n.g)

\* the result of a simulate_das / simulate_pf call executed with no other run
\* drawing from the generator, the generator being in state g at entry
AloneResult(c, g) ==
    RunDas(DasFrame(IF c.fn = "pf" THEN PfBeta ELSE c.beta,
                    c.num_slots, c.num_users, c.seed), g)

\* ===================================================================
\* SOLUTION 2: simulate_csi_smoothing
\* ===================================================================
Mobility(i) == IF i < 5 THEN "high" ELSE "low"

\* lines 132-141
NewCsiUser(i) ==
    [id |-> i, mobility |-> Mobility(i),
     true_cqi |-> 10000, reported_cqi |-> 10000, smoothed_cqi |-> 10000,
     avg_throughput |-> 5000, retransmissions |-> 0, successful_tx |-> 0,
     metric |-> Unbound]

CsiFrame(alpha, num_slots, num_users) ==
    [fn |-> "csi", pc |-> "csi_init",
     alpha |-> alpha, num_slots |-> num_slots, num_users |-> num_users,
     users |-> <<>>, spectral_efficiency |-> <<>>, retransmission_rates |-> <<>>,
     slot |-> 0, selected_user |-> Unbound]

CsiLoop(f) == IF f.slot < f.num_slots THEN "csi_update" ELSE "csi_return"

\* lines 129-144
CsiInitFn(f, g) ==
    LET f1 == [f EXCEPT !.users = [k \in 1..Max(f.num_users, 0) |-> NewCsiUser(k - 1)],
                        !.spectral_efficiency = <<>>,
                        !.retransmission_rates = <<>>]
    IN [f |-> [f1 EXCEPT !.pc = CsiLoop(f1)], g |-> g]

\* lines 149-157, for one user: two draws
UpdateCqi(user, alpha, g) ==
    LET change_rate == IF user.mobility = "high" THEN 2000 ELSE 500
        true_cqi == Max(1000, user.true_cqi + Normal(g, change_rate))
        g1 == RngNext(g)
        noise == IF user.mobility = "high" THEN Normal(g1, 1500) ELSE Normal(g1, 500)
        reported_cqi == Max(1000, true_cqi + noise)
    IN [user EXCEPT !.true_cqi = true_cqi,
                    !.reported_cqi = reported_cqi,
                    !.smoothed_cqi = FMul(alpha, reported_cqi) + FMul(FP - alpha, @)]

RECURSIVE UpdateAllCqi(_, _, _, _)
UpdateAllCqi(users, alpha, g, k) ==
    IF k > Len(users) THEN [users |-> users, g |-> g]
    ELSE UpdateAllCqi([users EXCEPT ![k] = UpdateCqi(@, alpha, g)], alpha,
                      RngNext(RngNext(g)), k + 1)

CsiUpdateFn(f, g) ==
    LET up == UpdateAllCqi(f.users, f.alpha, g, 1)
    IN [f |-> [f EXCEPT !.users = up.users, !.pc = "csi_metric"], g |-> up.g]

\* lines 160-161
CsiMetric(user) == FDiv(user.smoothed_cqi, Max(user.avg_throughput, 100))

CsiMetricFn(f, g) ==
    [f |-> [f EXCEPT !.users = [k \in 1..Len(f.users) |->
                                   [f.users[k] EXCEPT !.metric = CsiMetric(f.users[k])]],
                     !.pc = "csi_select"],
     g |-> g]

\* max(users, key=lambda u: u['metric']): the first user with the maximum
MaxUser(users) ==
    CHOOSE k \in 1..Len(users) :
        /\ \A j \in 1..Len(users) : users[j].metric <= users[k].metric
        /\ \A j \in 1..Len(users) : j < k => users[j].metric < users[k].metric

\* lines 167-168
SuccessProb(user) ==
    Max(500, FP - FDiv(Abs(user.smoothed_cqi - user.true_cqi), 10000))

\* lines 164-174; max() of an empty list raises ValueError
CsiSelectFn(f, g) ==
    IF f.users = <<>> THEN [f |-> [f EXCEPT !.pc = "raised"], g |-> g]
    ELSE LET k == MaxUser(f.users)
             u == f.users[k]
             f1 == [f EXCEPT !.selected_user = k, !.pc = "csi_record"]
         IN IF RandomLt(g, SuccessProb(u))
            THEN [f |-> [f1 EXCEPT !.users[k].successful_tx = @ + 1,
                                   !.users[k].avg_throughput = Ewma(@, u.smoothed_cqi)],
                  g |-> RngNext(g)]
            ELSE [f |-> [f1 EXCEPT !.users[k].retransmissions = @ + 1],
                  g |-> RngNext(g)]

\* lines 177-182
TotalTx(users) ==
    SumSeq([k \in 1..Len(users) |-> users[k].successful_tx + users[k].retransmissions])
TotalRetx(users) == SumSeq([k \in 1..Len(users) |-> users[k].retransmissions])
RetransRate(users) == FDiv(Fix(TotalRetx(users)), Fix(Max(TotalTx(users), 1))) * 100

CsiRecordFn(f, g) ==
    LET avg_se == NpMean([k \in 1..Len(f.users) |-> f.users[k].smoothed_cqi])
        f1 == [f EXCEPT !.retransmission_rates = Append(@, RetransRate(f.users)),
                        !.spectral_efficiency = Append(@, avg_se.val),
                        !.slot = @ + 1]
    IN [f |-> [f1 EXCEPT !.pc = CsiLoop(f1)], g |-> g]

\* lines 184-189
CsiResult(f) ==
    [spectral_efficiency |-> NpMean(f.spectral_efficiency),
     retransmission_rate |-> NpMean(f.retransmission_rates),
     se_history |-> LastN(f.spectral_efficiency, HistoryWindow),
     retrans_history |-> LastN(f.retransmission_rates, HistoryWindow)]

CsiStepFn(f, g) ==
    CASE f.pc = "csi_init" -> CsiInitFn(f, g)
      [] f.pc = "csi_update" -> CsiUpdateFn(f, g)
      [] f.pc = "csi_metric" -> CsiMetricFn(f, g)
      [] f.pc = "csi_select" -> CsiSelectFn(f, g)
      [] f.pc = "csi_record" -> CsiRecordFn(f, g)

\* ===================================================================
\* SOLUTION 3: simulate_fragmentation_aware
\* ===================================================================
\* lines 198-203 (and the reset values of lines 302-305)
NominalCapacity == <<50, 40, 30, 35>>
\* fault: the last fragment lies next to the first two
CenterFreqNear == <<3500, 3600, 3800, 3550>>
CenterFreq == <<3500, 3600, 3800, 2600>>

NewFragments ==
    [k \in 1..4 |-> [id |-> k - 1, capacity |-> NominalCapacity[k],
                     center_freq |-> CenterFreq[k]]]

FragFrame(clustering_enabled, num_slots) ==
    [fn |-> "frag", pc |-> "frag_init",
     clustering_enabled |-> clustering_enabled, num_slots |-> num_slots,
     fragments |-> <<>>, num_users |-> Unbound,
     utilization_history |-> <<>>, throughput_history |-> <<>>,
     urllc_compliance_history |-> <<>>,
     slot |-> 0, users |-> <<>>, clusters |-> <<>>, total_allocated |-> Unbound]

FragLoop(f) == IF f.slot < f.num_slots THEN "frag_generate" ELSE "frag_return"

\* lines 198-208
FragInitFn(f, g) ==
    LET f1 == [f EXCEPT !.fragments = NewFragments, !.num_users = 12,
                        !.utilization_history = <<>>, !.throughput_history = <<>>,
                        !.urllc_compliance_history = <<>>]
    IN [f |-> [f1 EXCEPT !.pc = FragLoop(f1)], g |-> g]

\* lines 214-237, for one user: demand, then deadline
NewFragUser(i, g) ==
    LET g1 == RngNext(g)
    IN IF i < 4
       THEN [id |-> i, service_type |-> "URLLC", demand |-> RandInt(g, 5, 15),
             deadline |-> RandInt(g1, 3, 6), weight |-> 10, allocated |-> 0,
             score |-> [num |-> 0, den |-> 1]]
       ELSE IF i < 8
       THEN [id |-> i, service_type |-> "eMBB", demand |-> RandInt(g, 15, 30),
             deadline |-> RandInt(g1, 10, 20), weight |-> 5, allocated |-> 0,
             score |-> [num |-> 0, den |-> 1]]
       ELSE [id |-> i, service_type |-> "mMTC", demand |-> RandInt(g, 3, 10),
             deadline |-> RandInt(g1, 30, 50), weight |-> 1, allocated |-> 0,
             score |-> [num |-> 0, den |-> 1]]

RECURSIVE GenerateUsers(_, _, _)
GenerateUsers(users, g, n) ==
    IF Len(users) >= n THEN [users |-> users, g |-> g]
    ELSE GenerateUsers(Append(users, NewFragUser(Len(users), g)),
                       RngNext(RngNext(g)), n)

FragGenerateFn(f, g) ==
    LET gu == GenerateUsers(<<>>, g, f.num_users)
    IN [f |-> [f EXCEPT !.users = gu.users, !.pc = "frag_sort"], g |-> gu.g]

\* fault: the weight and the deadline are left out of the score
ScoreFairnessOnly(user) == [num |-> 1, den |-> user.allocated + 1]

\* lines 241-242: weight * (1.0 / deadline) + 1.0 / (allocated + 1), kept as the
\* exact fraction (two scores of the code are equal floats exactly when the
\* fractions are equal: distinct fractions differ by more than 1/2500)
Score(user) ==
    [num |-> user.weight * (user.allocated + 1) + user.deadline,
     den |-> user.deadline * (user.allocated + 1)]

\* fault: the comparison is turned round (ascending order)
ScoreMore(a, b) == b.num * a.den < a.num * b.den
ScoreLess(a, b) == a.num * b.den < b.num * a.den

\* fault: a user is put before the users of equal score (not stable)
RECURSIVE InsertBeforeEqual(_, _)
InsertBeforeEqual(sorted, u) ==
    IF sorted = <<>> THEN <<u>>
    ELSE IF ~ScoreLess(u.score, Head(sorted).score) THEN <<u>> \o sorted
    ELSE <<Head(sorted)>> \o InsertBeforeEqual(Tail(sorted), u)

\* users.sort(key=score, reverse=True): stable, descending
RECURSIVE InsertByScore(_, _)
InsertByScore(sorted, u) ==
    IF sorted = <<>> THEN <<u>>
    ELSE IF ScoreLess(Head(sorted).score, u.score) THEN <<u>> \o sorted
    ELSE <<Head(sorted)>> \o InsertByScore(Tail(sorted), u)

RECURSIVE SortByScore(_, _)
SortByScore(sorted, rest) ==
    IF rest = <<>> THEN sorted
    ELSE SortByScore(InsertByScore(sorted, Head(rest)), Tail(rest))

\* lines 240-244
FragSortFn(f, g) ==
    LET scored == [k \in 1..Len(f.users) |->
                      [f.users[k] EXCEPT !.score = Score(f.users[k])]]
    IN [f |-> [f EXCEPT !.users = SortByScore(<<>>, scored), !.pc = "frag_allocate"],
        g |-> g]

\* fault: a wider proximity threshold
NearWide(fragments, k, cluster) ==
    \E j \in 1..Len(cluster) :
        Abs(fragments[k].center_freq - fragments[cluster[j]].center_freq) < 250

\* line 252: any(abs(frag.center_freq - f.center_freq) < 150 for f in cluster);
\* a cluster is a list of positions in the fragment list
Near(fragments, k, cluster) ==
    \E j \in 1..Len(cluster) :
        Abs(fragments[k].center_freq - fragments[cluster[j]].center_freq) < 150

\* lines 251-257: the first cluster with a near member takes the fragment
RECURSIVE AddToClusters(_, _, _, _)
AddToClusters(fragments, clusters, k, c) ==
    IF c > Len(clusters) THEN Append(clusters, <<k>>)
    ELSE IF Near(fragments, k, clusters[c])
         THEN [clusters EXCEPT ![c] = Append(@, k)]
         ELSE AddToClusters(fragments, clusters, k, c + 1)

\* lines 248-257
RECURSIVE BuildClusters(_, _, _)
BuildClusters(fragments, clusters, k) ==
    IF k > Len(fragments) THEN clusters
    ELSE BuildClusters(fragments, AddToClusters(fragments, clusters, k, 1), k + 1)

\* fault: the capacity of the fragment is not looked at
TakeAll(remaining, available) == remaining

\* fault: one unit of every fragment is never given out
TakeAllButOne(remaining, available) == Min(remaining, Max(available - 1, 0))

\* lines 269-273 and 281-285: take min(remaining, capacity) from fragment k
Take(remaining, available) == Min(remaining, available)

\* fault: a user takes from the first fragment of the list only
FillFirstOnly(st, order) ==
    IF order = <<>> \/ st.remaining <= 0 THEN st
    ELSE LET k == Head(order)
             allocated == Take(st.remaining, st.fragments[k].capacity)
         IN [user |-> [st.user EXCEPT !.allocated = @ + allocated],
             fragments |-> [st.fragments EXCEPT ![k].capacity = @ - allocated],
             remaining |-> st.remaining - allocated]

\* lines 266-273 and 278-285: one user over a list of fragment positions; st is
\* [user, fragments, remaining]
RECURSIVE FillFrom(_, _)
FillFrom(st, order) ==
    IF order = <<>> \/ st.remaining <= 0 THEN st
    ELSE LET k == Head(order)
             allocated == Take(st.remaining, st.fragments[k].capacity)
         IN FillFrom([user |-> [st.user EXCEPT !.allocated = @ + allocated],
                      fragments |-> [st.fragments EXCEPT ![k].capacity = @ - allocated],
                      remaining |-> st.remaining - allocated],
                     Tail(order))

\* lines 262-273: one user over the clusters
RECURSIVE FillClusters(_, _)
FillClusters(st, clusters) ==
    IF clusters = <<>> \/ st.remaining <= 0 THEN st
    ELSE FillClusters(FillFrom(st, Head(clusters)), Tail(clusters))

\* lines 260-273 and 276-285: every user in sorted order
RECURSIVE AllocateUsers(_, _, _, _, _)
AllocateUsers(users, fragments, clustering_enabled, clusters, k) ==
    IF k > Len(users) THEN [users |-> users, fragments |-> fragments]
    ELSE LET st0 == [user |-> users[k], fragments |-> fragments,
                     remaining |-> users[k].demand - users[k].allocated]
             st == IF clustering_enabled
                   THEN FillClusters(st0, clusters)
                   ELSE FillFrom(st0, [j \in 1..Len(fragments) |-> j])
         IN AllocateUsers([users EXCEPT ![k] = st.user], st.fragments,
                          clustering_enabled, clusters, k + 1)

\* lines 246-285
FragAllocateFn(f, g) ==
    LET clusters == IF f.clustering_enabled
                    THEN BuildClusters(f.fragments, <<>>, 1) ELSE f.clusters
        al == AllocateUsers(f.users, f.fragments, f.clustering_enabled, clusters, 1)
    IN [f |-> [f EXCEPT !.clusters = clusters, !.users = al.users,
                        !.fragments = al.fragments, !.pc = "frag_metrics"],
        g |-> g]

\* lines 288-299
OriginalTotalCapacity == 50 + 40 + 30 + 35
TotalAllocated(users) == SumSeq([k \in 1..Len(users) |-> users[k].allocated])
Utilization(total_allocated) ==
    FDiv(Fix(total_allocated), Fix(OriginalTotalCapacity)) * 100
UrllcUsers(users) == SelectSeq(users, LAMBDA u : u.service_type = "URLLC")
UrllcCompliance(users) ==
    LET urllc_users == UrllcUsers(users)
        met == SelectSeq(urllc_users, LAMBDA u : u.allocated >= u.demand)
    IN FDiv(Fix(Len(met)), Fix(Max(Len(urllc_users), 1))) * 100

FragMetricsFn(f, g) ==
    LET total_allocated == TotalAllocated(f.users)
    IN [f |-> [f EXCEPT !.total_allocated = total_allocated,
                        !.utilization_history = Append(@, Utilization(total_allocated)),
                        !.throughput_history = Append(@, total_allocated),
                        !.urllc_compliance_history = Append(@, UrllcCompliance(f.users)),
                        !.pc = "frag_reset"],
        g |-> g]

\* fault: the capacities are not reset at the end of the slot
KeepFragments(fragments) == fragments

\* fault: only the first fragment is reset
ResetFirstOnly(fragments) ==
    [k \in 1..Len(fragments) |->
        IF k = 1 THEN [fragments[k] EXCEPT !.capacity = NominalCapacity[k]]
        ELSE fragments[k]]

\* lines 302-305: reset fragment capacities
ResetFragments(fragments) ==
    [k \in 1..Len(fragments) |-> [fragments[k] EXCEPT !.capacity = NominalCapacity[k]]]

FragResetFn(f, g) ==
    LET f1 == [f EXCEPT !.fragments = ResetFragments(@), !.slot = @ + 1]
    IN [f |-> [f1 EXCEPT !.pc = FragLoop(f1)], g |-> g]

\* lines 307-313
FragResult(f) ==
    [spectrum_utilization |-> NpMean(f.utilization_history),
     avg_throughput |->
         NpMean([k \in 1..Len(f.throughput_history) |-> Fix(f.throughput_history[k])]),
     urllc_compliance |-> NpMean(f.urllc_compliance_history),
     util_history |-> LastN(f.utilization_history, HistoryWindow),
     throughput_history |-> LastN(f.throughput_history, HistoryWindow)]

FragStepFn(f, g) ==
    CASE f.pc = "frag_init" -> FragInitFn(f, g)
      [] f.pc = "frag_generate" -> FragGenerateFn(f, g)
      [] f.pc = "frag_sort" -> FragSortFn(f, g)
      [] f.pc = "frag_allocate" -> FragAllocateFn(f, g)
      [] f.pc = "frag_metrics" -> FragMetricsFn(f, g)
      [] f.pc = "frag_reset" -> FragResetFn(f, g)

\* ===================================================================
\* Calls, frames and the actions
\* ===================================================================
\* a call of one of the simulators: the function and its arguments
Call(fn, beta, alpha, clustering, num_slots, num_users, seed) ==
    [fn |-> fn, beta |-> beta, alpha |-> alpha, clustering |-> clustering,
     num_slots |-> num_slots, num_users |-> num_users, seed |-> seed]

NotCalled == [pc |-> "unused"]
Pending == [pc |-> "call"]
NoResult == [none |-> TRUE]

Finished(r) == local[r].pc \in {"done", "raised", "unused"}

\* which request may run: any, when the server handles requests in threads;
\* otherwise one after the other
Turn(r) == threaded \/ \A q \in Runs : q < r => Finished(q)

\* a step of run r that replaces its frame and the generator's state
Advance(r, n) ==
    /\ Turn(r)
    /\ local' = [local EXCEPT ![r] = n.f]
    /\ rng' = n.g
    /\ UNCHANGED <<args, result, threaded>>

\* simulate_das(beta, num_slots, num_users, seed) is entered
CallDAS(r) ==
    /\ Turn(r)
    /\ local[r].pc = "call"
    /\ args[r].fn = "das"
    /\ local' = [local EXCEPT ![r] = DasFrame(args[r].beta, args[r].num_slots,
                                              args[r].num_users, args[r].seed)]
    /\ UNCHANGED <<rng, args, result, threaded>>

\* simulate_pf(num_slots, num_users, seed) enters simulate_das with beta=0.0
simulate_pf(r) ==
    /\ Turn(r)
    /\ local[r].pc = "call"
    /\ args[r].fn = "pf"
    /\ local' = [local EXCEPT ![r] = DasFrame(PfBeta, args[r].num_slots,
                                              args[r].num_users, args[r].seed)]
    /\ UNCHANGED <<rng, args, result, threaded>>

DasInit(r) == local[r].pc = "das_init" /\ Advance(r, DasInitFn(local[r], rng))
DasArrive(r) == local[r].pc = "das_arrive" /\ Advance(r, DasArriveFn(local[r], rng))
DasAge(r) == local[r].pc = "das_age" /\ Advance(r, DasAgeFn(local[r], rng))
DasPriorities(r) ==
    local[r].pc = "das_priorities" /\ Advance(r, DasPrioritiesFn(local[r], rng))
DasSelect(r) == local[r].pc = "das_select" /\ Advance(r, DasSelectFn(local[r], rng))
DasSweep(r) == local[r].pc = "das_sweep" /\ Advance(r, DasSweepFn(local[r], rng))
DasChannel(r) == local[r].pc = "das_channel" /\ Advance(r, DasChannelFn(local[r], rng))

DasReturn(r) ==
    /\ Turn(r)
    /\ local[r].pc = "das_return"
    /\ result' = [result EXCEPT ![r] = DasResult(local[r])]
    /\ local' = [local EXCEPT ![r].pc = "done"]
    /\ UNCHANGED <<rng, args, threaded>>

StepDAS(r) ==
    \/ CallDAS(r)
    \/ simulate_pf(r)
    \/ DasInit(r)
    \/ DasArrive(r)
    \/ DasAge(r)
    \/ DasPriorities(r)
    \/ DasSelect(r)
    \/ DasSweep(r)
    \/ DasChannel(r)
    \/ DasReturn(r)

\* simulate_csi_smoothing(alpha, num_slots, num_users) is entered
CallCSI(r) ==
    /\ Turn(r)
    /\ local[r].pc = "call"
    /\ args[r].fn = "csi"
    /\ local' = [local EXCEPT ![r] = CsiFrame(args[r].alpha, args[r].num_slots,
                                              args[r].num_users)]
    /\ UNCHANGED <<rng, args, result, threaded>>

CsiInit(r) == local[r].pc = "csi_init" /\ Advance(r, CsiInitFn(local[r], rng))
CsiUpdate(r) == local[r].pc = "csi_update" /\ Advance(r, CsiUpdateFn(local[r], rng))
CsiMetrics(r) == local[r].pc = "csi_metric" /\ Advance(r, CsiMetricFn(local[r], rng))
CsiSelect(r) == local[r].pc = "csi_select" /\ Advance(r, CsiSelectFn(local[r], rng))
CsiRecord(r) == local[r].pc = "csi_record" /\ Advance(r, CsiRecordFn(local[r], rng))

CsiReturn(r) ==
    /\ Turn(r)
    /\ local[r].pc = "csi_return"
    /\ result' = [result EXCEPT ![r] = CsiResult(local[r])]
    /\ local' = [local EXCEPT ![r].pc = "done"]
    /\ UNCHANGED <<rng, args, threaded>>

StepCSI(r) ==
    \/ CallCSI(r)
    \/ CsiInit(r)
    \/ CsiUpdate(r)
    \/ CsiMetrics(r)
    \/ CsiSelect(r)
    \/ CsiRecord(r)
    \/ CsiReturn(r)

\* simulate_fragmentation_aware(clustering_enabled, num_slots) is entered
CallFRAG(r) ==
    /\ Turn(r)
    /\ local[r].pc = "call"
    /\ args[r].fn = "frag"
    /\ local' = [local EXCEPT ![r] = FragFrame(args[r].clustering, args[r].num_slots)]
    /\ UNCHANGED <<rng, args, result, threaded>>

FragInit(r) == local[r].pc = "frag_init" /\ Advance(r, FragInitFn(local[r], rng))
FragGenerate(r) ==
    local[r].pc = "frag_generate" /\ Advance(r, FragGenerateFn(local[r], rng))
FragSort(r) == local[r].pc = "frag_sort" /\ Advance(r, FragSortFn(local[r], rng))
FragAllocate(r) ==
    local[r].pc = "frag_allocate" /\ Advance(r, FragAllocateFn(local[r], rng))
FragMetrics(r) ==
    local[r].pc = "frag_metrics" /\ Advance(r, FragMetricsFn(local[r], rng))
\* fault: one module-level fragment list shared by every call
FragResetShared(r) ==
    /\ local[r].pc = "frag_reset"
    /\ Turn(r)
    /\ local' = [q \in Runs |->
                    IF q = r THEN FragResetFn(local[r], rng).f
                    ELSE IF local[q].pc \notin {"call", "unused"} /\ local[q].fn = "frag"
                         THEN [local[q] EXCEPT !.fragments = ResetFragments(@)]
                         ELSE local[q]]
    /\ UNCHANGED <<rng, args, result, threaded>>

FragReset(r) == local[r].pc = "frag_reset" /\ Advance(r, FragResetFn(local[r], rng))

FragReturn(r) ==
    /\ Turn(r)
    /\ local[r].pc = "frag_return"
    /\ result' = [result EXCEPT ![r] = FragResult(local[r])]
    /\ local' = [local EXCEPT ![r].pc = "done"]
    /\ UNCHANGED <<rng, args, threaded>>

StepFRAG(r) ==
    \/ CallFRAG(r)
    \/ FragInit(r)
    \/ FragGenerate(r)
    \/ FragSort(r)
    \/ FragAllocate(r)
    \/ FragMetrics(r)
    \/ FragReset(r)
    \/ FragReturn(r)

\* ------------------------------------------------------- the inputs
Betas == {0, 700, 1000}
Alphas == {200, 1000}
Seeds == 0..MaxSeed
\* the generator's state when the process starts (seeded from the system)
EntropyStates(n) == {(e * 1367 + 911) % RngModulus : e \in 0..n}

DasCalls(slots, users) ==
    {Call(fn, b, 0, FALSE, n, u, s) :
        fn \in {"das"}, b \in Betas, n \in slots, u \in users,
        s \in Seeds \cup {NoSeed}}
PfCalls(slots, users) ==
    {Call(fn, 0, 0, FALSE, n, u, s) :
        fn \in {"pf"}, n \in slots, u \in users, s \in Seeds \cup {NoSeed}}
CsiCalls(slots, users) ==
    {Call(fn, 0, a, FALSE, n, u, NoSeed) :
        fn \in {"csi"}, a \in Alphas, n \in slots, u \in users}
FragCalls(slots) ==
    {Call(fn, 0, 0, c, n, 12, NoSeed) : fn \in {"frag"}, c \in BOOLEAN, n \in slots}
Nothing == Call("none", 0, 0, FALSE, 0, 0, NoSeed)

SameRun(c, d) ==
    c.num_slots = d.num_slots /\ c.num_users = d.num_users /\ c.seed = d.seed

Start(r) == IF args[r].fn = "none" THEN NotCalled ELSE Pending

\* line 23: num_users: int = 15
DefaultUsers == 15

\* two simulate_das / simulate_pf calls with the same seed, slots and users, one
\* after the other; or one long run, with few users or with users of the
\* three service classes; or one short run with the default number of users
DasScenario ==
    \/ \E c \in DasCalls({0, ShortSlots}, 0..MaxUsers)
                \cup PfCalls({0, ShortSlots}, 0..MaxUsers) :
       \E d \in DasCalls({0, ShortSlots}, 0..MaxUsers)
                \cup PfCalls({0, ShortSlots}, 0..MaxUsers) :
          SameRun(c, d) /\ args = <<c, d>>
    \/ \E c \in DasCalls({LongSlots}, {MaxUsers, WideUsers}) : args = <<c, Nothing>>
    \/ \E c \in DasCalls({ShortSlots}, {DefaultUsers}) : args = <<c, Nothing>>

CsiScenario ==
    \E c \in CsiCalls({0, ShortSlots, LongSlots}, 0..(MaxUsers + 5)) :
        args = <<c, Nothing>>

FragScenario ==
    \E c \in FragCalls({0, ShortSlots, LongSlots}) : args = <<c, Nothing>>

InitWith(scenario, entropy, thr) ==
    /\ rng \in EntropyStates(entropy)
    /\ scenario
    /\ local = [r \in Runs |-> Start(r)]
    /\ result = [r \in Runs |-> NoResult]
    /\ threaded = thr

\* two requests handled by the threaded server at the same time: a simulate_das
\* or simulate_pf call, and a call of any of the simulators
ConcScenario ==
    \E c \in DasCalls({ConcSlots}, {1}) \cup PfCalls({ConcSlots}, {1})
             \cup CsiCalls({ConcSlots}, {1}) \cup FragCalls({ConcSlots}) :
    \E d \in DasCalls({ConcSlots}, {1}) \cup CsiCalls({ConcSlots}, {1})
             \cup FragCalls({ConcSlots}) :
        /\ c.fn \in {"csi", "frag"} => d.fn = c.fn
        /\ c.alpha \in {0, 200} /\ d.alpha \in {0, 200}
        /\ c.fn = "das" => c.beta = 700
        /\ d.fn = "das" => d.beta = 700
        /\ args = <<c, d>>

\* lines 214-237: user i of a slot, its demand and deadline as drawn
FragUserWith(i, demand, deadline) ==
    [id |-> i,
     service_type |-> IF i < 4 THEN "URLLC" ELSE IF i < 8 THEN "eMBB" ELSE "mMTC",
     demand |-> demand, deadline |-> deadline,
     weight |-> IF i < 4 THEN 10 ELSE IF i < 8 THEN 5 ELSE 1,
     allocated |-> 0, score |-> [num |-> 0, den |-> 1]]

\* the least and the greatest value np.random.randint can return for the
\* demand and the deadline of user i (lines 216-217, 221-222, 226-227)
DemandDraw(i, high) ==
    IF i < 4 THEN (IF high THEN 14 ELSE 5)
    ELSE IF i < 8 THEN (IF high THEN 29 ELSE 15)
    ELSE (IF high THEN 9 ELSE 3)
DeadlineDraw(i, high) ==
    IF i < 4 THEN (IF high THEN 5 ELSE 3)
    ELSE IF i < 8 THEN (IF high THEN 19 ELSE 10)
    ELSE (IF high THEN 49 ELSE 30)

\* the users of a slot whose draws are all at an end of their range: dm says
\* which end for the demand of each URLLC and eMBB user and of the mMTC users,
\* dl which end for the deadlines of each class
DrawnUsers(dm, dl) ==
    [k \in 1..12 |->
        FragUserWith(k - 1,
                     DemandDraw(k - 1, dm[Min(k, 9)]),
                     DeadlineDraw(k - 1, dl[IF k <= 4 THEN 1 ELSE IF k <= 8 THEN 2 ELSE 3]))]

\* a one-slot run of the fragmentation simulator that has just generated its
\* users, the draws being at the ends of their ranges
InitDraws ==
    /\ rng \in EntropyStates(0)
    /\ threaded = FALSE
    /\ \E c \in FragCalls({1}) : args = <<c, Nothing>>
    /\ result = [r \in Runs |-> NoResult]
    /\ \E dm \in [1..9 -> BOOLEAN] : \E dl \in [1..3 -> BOOLEAN] :
          local = <<[FragInitFn(FragFrame(args[1].clustering, 1), rng).f
                        EXCEPT !.users = DrawnUsers(dm, dl), !.pc = "frag_sort"],
                    NotCalled>>

InitDAS == InitWith(DasScenario, MaxEntropy, FALSE)
InitCSI == InitWith(CsiScenario, MaxEntropy, FALSE)
InitFRAG == InitWith(FragScenario, MaxFragEntropy, FALSE)
Init == InitDAS \/ InitCSI \/ InitFRAG
InitConc == InitWith(ConcScenario, 0, TRUE)

NextDAS == \E r \in Runs : StepDAS(r)
NextCSI == \E r \in Runs : StepCSI(r)
NextFRAG == \E r \in Runs : StepFRAG(r)
Next == \E r \in Runs : StepDAS(r) \/ StepCSI(r) \/ StepFRAG(r)

SpecDAS == InitDAS /\ [][NextDAS]_vars
SpecCSI == InitCSI /\ [][NextCSI]_vars
SpecFRAG == InitFRAG /\ [][NextFRAG]_vars
Spec == Init /\ [][Next]_vars
SpecConc == InitConc /\ [][Next]_vars
SpecFRAGDraws == (InitFRAG \/ InitDraws) /\ [][NextFRAG]_vars

\* ===================================================================
\* Properties
\* ===================================================================
IsFrame(f, fn) == f.pc \notin {"call", "unused"} /\ f.fn = fn
Done(r) == local[r].pc = "done"
IsDasCall(c) == c.fn \in {"das", "pf"}

\* every packet of user k of frame f is transmitted, timed out or queued
Accounted(f, k) ==
    LET i == f.users[k].id
    IN f.total_packets[i] = Len(f.delays[i]) + f.timeouts[i] + Len(f.users[k].packets)

\* C1: packet conservation in simulate_das.  In every step of a run and for
\* every user, the change of the queue length is the arrivals minus the packets
\* transmitted (at most one) minus the timeouts counted in that step, so over a
\* slot: length after = length before + arrivals - (1 if transmitted) -
\* timeouts; and at all times total_packets[u] = transmitted + timeouts[u] +
\* queued.
C1_PacketConservation ==
    [][\A r \in Runs :
          IsFrame(local[r], "das") =>
             /\ \A k \in 1..Len(local'[r].users) : Accounted(local'[r], k)
             /\ \A k \in 1..Len(local[r].users) :
                   LET i == local[r].users[k].id
                       arrivals == local'[r].total_packets[i] - local[r].total_packets[i]
                       sent == Len(local'[r].delays[i]) - Len(local[r].delays[i])
                       timed_out == local'[r].timeouts[i] - local[r].timeouts[i]
                   IN /\ Len(local'[r].users[k].packets)
                         = Len(local[r].users[k].packets) + arrivals - sent - timed_out
                      /\ arrivals \in {0, 1} /\ sent \in {0, 1} /\ timed_out >= 0
                      /\ local[r].pc # "das_arrive" => arrivals = 0
                      /\ local[r].pc # "das_select" => sent = 0
                      /\ local[r].pc # "das_sweep" => timed_out = 0]_vars

\* a user has had packets transmitted, timed out and still queued
C1_Witness ==
    \E r \in Runs :
        /\ IsFrame(local[r], "das")
        /\ local[r].pc = "das_channel"
        /\ \E k \in 1..Len(local[r].users) :
              LET i == local[r].users[k].id
              IN /\ local[r].delays[i] # <<>>
                 /\ local[r].timeouts[i] > 0
                 /\ local[r].users[k].packets # <<>>

\* C2: two simulate_das calls with the same seed, beta, slot count and user
\* count, executed one after the other, return the same result (the same
\* throughput_history in particular).
C2_SeededDeterminism ==
    (/\ Done(1) /\ Done(2)
     /\ args[1] = args[2]
     /\ IsDasCall(args[1])
     /\ args[1].seed # NoSeed)
    => /\ result[1] = result[2]
       /\ result[1].throughput_history = result[2].throughput_history

\* both seeded runs are over and transmitted something
C2_Witness ==
    /\ Done(1) /\ Done(2)
    /\ args[1] = args[2]
    /\ IsDasCall(args[1])
    /\ args[1].seed # NoSeed
    /\ args[1].num_users = MaxUsers
    /\ Len(result[2].throughput_history) = ShortSlots
    /\ \E j \in 1..Len(result[2].throughput_history) :
          result[2].throughput_history[j] > 0
    /\ result[1] = result[2]

\* C3: with requests overlapping in time, a seeded simulate_das run returns
\* what the same call returns when it runs alone.
C3_SeededRunIsolated ==
    \A r \in Runs :
        (Done(r) /\ IsDasCall(args[r]) /\ args[r].seed # NoSeed)
        => result[r] = AloneResult(args[r], 0)

\* the positions inside the bodies of the three simulators
Blocks ==
    {"das_init", "das_arrive", "das_age", "das_priorities", "das_select",
     "das_sweep", "das_channel",
     "csi_init", "csi_update", "csi_metric", "csi_select", "csi_record",
     "frag_init", "frag_generate", "frag_sort", "frag_allocate", "frag_metrics",
     "frag_reset"}

\* what the block at f.pc makes of frame f when the generator is in state g
BlockOf(f, g) ==
    CASE f.fn = "das" -> DasStepFn(f, g)
      [] f.fn = "csi" -> CsiStepFn(f, g)
      [] f.fn = "frag" -> FragStepFn(f, g)

\* C4: under any interleaving of two runs, a step of one run leaves the frame
\* and the result of every other run as they are (no user, packet, counter,
\* history or fragment capacity of a run is written by another run), and the
\* frame it produces is determined by its own frame and the generator's state
\* (it reads nothing of the other run).
C4_FramesNotShared ==
    [][\A q \in Runs :
          local'[q] # local[q] =>
             /\ \A r \in Runs :
                   r # q => (local'[r] = local[r] /\ result'[r] = result[r])
             /\ local[q].pc \in Blocks => local'[q] = BlockOf(local[q], rng).f]_vars

\* two runs of the fragmentation simulator are both in the middle of a slot,
\* each with capacity taken from its own fragments
C4_Witness ==
    /\ threaded
    /\ \A r \in Runs :
          /\ IsFrame(local[r], "frag")
          /\ local[r].pc = "frag_metrics"
          /\ local[r].fragments[1].capacity < NominalCapacity[1]
    /\ local[1].users # local[2].users

EmptyQueues(users) == [k \in 1..Len(users) |-> [users[k] EXCEPT !.packets = <<>>]]

PfAndDasBetaZero(c, d) ==
    /\ c.fn = "pf" /\ d.fn = "das" /\ d.beta = 0
    /\ SameRun(c, d) /\ c.seed # NoSeed

\* C5: simulate_pf(N, U, S) returns what simulate_das(0, N, U, S) returns; a
\* simulate_pf run has beta = 0; and with beta = 0 every priority is W2 alone,
\* so the user selected is the one selected with every queue emptied.
C5_PfIsDasBetaZero ==
    /\ (Done(1) /\ Done(2)
        /\ (PfAndDasBetaZero(args[1], args[2]) \/ PfAndDasBetaZero(args[2], args[1])))
       => result[1] = result[2]
    /\ \A r \in Runs :
          IsFrame(local[r], "das") =>
             /\ args[r].fn = "pf" => local[r].beta = 0
             /\ (local[r].beta = 0 /\ local[r].pc = "das_select") =>
                   /\ \A i \in DOMAIN local[r].priorities :
                         local[r].priorities[i] = W2(local[r].users[i + 1])
                   /\ local[r].users # <<>> =>
                         MaxKey(local[r].priorities)
                         = MaxKey(ComputePriorities(0, EmptyQueues(local[r].users)))

\* a simulate_pf run and a simulate_das run with beta 0, same seed, are over
\* and transmitted something
C5_Witness ==
    /\ Done(1) /\ Done(2)
    /\ PfAndDasBetaZero(args[1], args[2])
    /\ args[1].num_users = MaxUsers
    /\ \E j \in 1..Len(result[1].throughput_history) :
          result[1].throughput_history[j] > 0
    /\ result[1] = result[2]

InPercent(v) == 0 <= v /\ v <= 100 * FP

\* C6: in simulate_das a user's timeouts never exceed its arrivals, and the
\* returned urllc_timeout_rate is in [0, 100].
C6_TimeoutRateBounded ==
    \A r \in Runs :
        IsFrame(local[r], "das") =>
           /\ \A i \in DOMAIN local[r].timeouts :
                 0 <= local[r].timeouts[i]
                 /\ local[r].timeouts[i] <= local[r].total_packets[i]
           /\ Done(r) => InPercent(result[r].urllc_timeout_rate)

\* a run is over with some, but not all, URLLC packets timed out
C6_Witness ==
    \E r \in Runs :
        /\ IsFrame(local[r], "das") /\ Done(r)
        /\ result[r].urllc_timeout_rate > 0
        /\ result[r].urllc_timeout_rate < 100 * FP

\* C7: in simulate_fragmentation_aware every per-slot utilization and URLLC
\* compliance is in [0, 100], and so are the returned means for num_slots >= 1.
C7_FragPercentages ==
    \A r \in Runs :
        IsFrame(local[r], "frag") =>
           /\ \A j \in 1..Len(local[r].utilization_history) :
                 InPercent(local[r].utilization_history[j])
           /\ \A j \in 1..Len(local[r].urllc_compliance_history) :
                 InPercent(local[r].urllc_compliance_history[j])
           /\ (Done(r) /\ local[r].num_slots >= 1) =>
                 /\ ~result[r].spectrum_utilization.nan
                 /\ InPercent(result[r].spectrum_utilization.val)
                 /\ ~result[r].urllc_compliance.nan
                 /\ InPercent(result[r].urllc_compliance.val)

\* a run is over in which one slot used the whole spectrum and another did not
C7_Witness ==
    \E r \in Runs :
        /\ IsFrame(local[r], "frag") /\ Done(r)
        /\ local[r].clustering_enabled
        /\ \E j \in 1..Len(local[r].utilization_history) :
              local[r].utilization_history[j] = 100 * FP
        /\ \E j \in 1..Len(local[r].utilization_history) :
              local[r].utilization_history[j] < 100 * FP

Consumed(fragments) ==
    SumSeq([k \in 1..Len(fragments) |-> NominalCapacity[k] - fragments[k].capacity])

\* C8: with clustering disabled, in every slot the capacity consumed from the
\* four fragments (nominal minus what is left before the reset) equals the sum
\* of the users' allocations, which is the total_allocated recorded for the
\* slot, and is at most 155.
C8_AllocationConservation ==
    \A r \in Runs :
        (/\ IsFrame(local[r], "frag")
         /\ ~local[r].clustering_enabled
         /\ local[r].pc \in {"frag_metrics", "frag_reset"})
        => /\ Consumed(local[r].fragments) = TotalAllocated(local[r].users)
           /\ Consumed(local[r].fragments) <= 155
           /\ local[r].pc = "frag_reset" =>
                 /\ local[r].total_allocated = Consumed(local[r].fragments)
                 /\ local[r].throughput_history[Len(local[r].throughput_history)]
                    = Consumed(local[r].fragments)

\* a later slot of a run without clustering in which the spectrum ran out
C8_Witness ==
    \E r \in Runs :
        /\ IsFrame(local[r], "frag")
        /\ ~local[r].clustering_enabled
        /\ local[r].pc = "frag_reset"
        /\ local[r].slot >= 1
        /\ Consumed(local[r].fragments) = 155
        /\ \E k \in 1..Len(local[r].users) :
              local[r].users[k].allocated < local[r].users[k].demand

\* h is the last min(n, 50) samples of full, in order, and full has n samples
IsWindow(h, full, n) ==
    /\ Len(full) = Max(n, 0)
    /\ Len(h) = Min(Max(n, 0), 50)
    /\ \A j \in 1..Len(h) : h[j] = full[Len(full) - Len(h) + j]

\* m is the mean of all the samples of full (full not empty)
IsMeanOfAll(m, full, unit) ==
    full # <<>> => (~m.nan /\ m.val = (unit * SumSeq(full)) \div Len(full))

\* C9: every returned history is the last min(num_slots, 50) per-slot samples
\* in slot order, and the scalar averages are means over all the slots.
C9_HistoryTruncation ==
    \A r \in Runs :
        Done(r) =>
           LET f == local[r]
               res == result[r]
           IN CASE f.fn = "das" ->
                     /\ IsWindow(res.throughput_history, f.throughput_history, f.num_slots)
                     /\ IsMeanOfAll(res.avg_throughput, f.throughput_history, 1)
                [] f.fn = "csi" ->
                     /\ IsWindow(res.se_history, f.spectral_efficiency, f.num_slots)
                     /\ IsWindow(res.retrans_history, f.retransmission_rates, f.num_slots)
                     /\ IsMeanOfAll(res.spectral_efficiency, f.spectral_efficiency, 1)
                     /\ IsMeanOfAll(res.retransmission_rate, f.retransmission_rates, 1)
                [] f.fn = "frag" ->
                     /\ IsWindow(res.util_history, f.utilization_history, f.num_slots)
                     /\ IsWindow(res.throughput_history, f.throughput_history, f.num_slots)
                     /\ IsMeanOfAll(res.spectrum_utilization, f.utilization_history, 1)
                     /\ IsMeanOfAll(res.avg_throughput, f.throughput_history, FP)

\* a run of more than 50 slots is over: 50 samples are returned, they are not
\* the first 50, and the mean is not the mean of the window
LongRunOver(r, fn) ==
    /\ Done(r) /\ local[r].fn = fn
    /\ local[r].num_slots > 50

C9_Witness ==
    \E r \in Runs :
        /\ LongRunOver(r, "frag")
        /\ Len(result[r].util_history) = 50
        /\ result[r].util_history # SubSeq(local[r].utilization_history, 1, 50)
        /\ result[r].spectrum_utilization.val
           # SumSeq(result[r].util_history) \div 50

\* C10: simulate_csi_smoothing with num_slots = 0 returns spectral_efficiency
\* 0.0 and retransmission_rate 0.0, with empty histories.
C10_CsiZeroSlots ==
    \A r \in Runs :
        (Done(r) /\ local[r].fn = "csi" /\ local[r].num_slots = 0)
        => /\ result[r].spectral_efficiency = Float(0)
           /\ result[r].retransmission_rate = Float(0)
           /\ result[r].se_history = <<>>
           /\ result[r].retrans_history = <<>>

\* C11: simulate_das guards every zero denominator and never raises: with no
\* URLLC arrival urllc_timeout_rate is 0; with no URLLC packet transmitted
\* avg_urllc_delay is 0.0; with num_slots = 0 avg_throughput is 0.0 and
\* throughput_history is empty; with num_users = 0 no selection is attempted
\* and every slot records throughput 0.
C11_DasGuards ==
    \A r \in Runs :
        IsFrame(local[r], "das") =>
           /\ local[r].pc # "raised"
           /\ local[r].num_users = 0 =>
                 /\ local[r].selected_user_id = Unbound
                 /\ \A j \in 1..Len(local[r].throughput_history) :
                       local[r].throughput_history[j] = 0
           /\ Done(r) =>
                 /\ ~result[r].avg_urllc_delay.nan
                 /\ ~result[r].avg_throughput.nan
                 /\ UrllcSum(local[r].users, local[r].total_packets) = 0
                       => result[r].urllc_timeout_rate = 0
                 /\ UrllcDelays(local[r].users, local[r].delays) = <<>>
                       => result[r].avg_urllc_delay = Float(0)
                 /\ local[r].num_slots = 0 =>
                       /\ result[r].avg_throughput = Float(0)
                       /\ result[r].throughput_history = <<>>
                 /\ local[r].num_users = 0 =>
                       /\ Len(local[r].throughput_history) = local[r].num_slots
                       /\ result[r].avg_throughput = Float(0)

\* the first run, without users, returned after its slots with every guard
\* taken; the second, with no slot, is over too
C11_Witness ==
    /\ Done(1) /\ Done(2)
    /\ IsFrame(local[1], "das") /\ IsFrame(local[2], "das")
    /\ local[1].num_users = 0 /\ local[1].num_slots = ShortSlots
    /\ Len(result[1].throughput_history) = ShortSlots
    /\ result[1].avg_urllc_delay = Float(0)
    /\ result[1].urllc_timeout_rate = 0

\* C12: simulate_fragmentation_aware with num_slots = 0 returns 0.0 for
\* spectrum_utilization, avg_throughput and urllc_compliance.
C12_FragZeroSlots ==
    \A r \in Runs :
        (Done(r) /\ local[r].fn = "frag" /\ local[r].num_slots = 0)
        => /\ result[r].spectrum_utilization = Float(0)
           /\ result[r].avg_throughput = Float(0)
           /\ result[r].urllc_compliance = Float(0)

\* the last sample of a history
Last(h) == h[Len(h)]

\* C13: in simulate_csi_smoothing one transmission attempt is made per slot,
\* so after t slots the users' successful_tx + retransmissions sum to t; the
\* sample appended in a slot is the cumulative total retransmissions /
\* max(total attempts, 1) x 100; every sample and the returned
\* retransmission_rate are in [0, 100].
C13_CsiRetransRate ==
    \A r \in Runs :
        IsFrame(local[r], "csi") =>
           LET f == local[r]
           IN /\ f.pc \in {"csi_update", "csi_metric", "csi_select", "csi_return", "done"}
                    => TotalTx(f.users) = f.slot
              /\ f.pc = "csi_record" => TotalTx(f.users) = f.slot + 1
              /\ Len(f.retransmission_rates) = f.slot
              /\ (f.pc \in {"csi_update", "csi_return"} /\ f.slot > 0) =>
                    /\ Last(f.retransmission_rates) * f.slot
                          <= 100 * FP * TotalRetx(f.users)
                    /\ 100 * FP * TotalRetx(f.users)
                          < (Last(f.retransmission_rates) + 100) * f.slot
              /\ \A j \in 1..Len(f.retransmission_rates) :
                    InPercent(f.retransmission_rates[j])
              /\ Done(r) =>
                    /\ ~result[r].retransmission_rate.nan
                    /\ InPercent(result[r].retransmission_rate.val)

\* the per-slot series of a run's frame
SlotSeries(f) ==
    CASE f.fn = "das" -> f.throughput_history
      [] f.fn = "csi" -> f.retransmission_rates
      [] f.fn = "frag" -> f.utilization_history

\* C14: every run of the three simulators ends by returning after exactly
\* num_slots slot iterations (none for num_slots <= 0): the slot counter
\* never passes num_slots, no run is cut short, and a returned run has gone
\* through num_slots slots, one sample each.
C14_RunsExactlyNumSlots ==
    \A r \in Runs :
        local[r].pc \notin {"call", "unused"} =>
           /\ local[r].pc # "raised"
           /\ 0 <= local[r].slot /\ local[r].slot <= Max(local[r].num_slots, 0)
           /\ Finished(r) =>
                 /\ local[r].slot = Max(local[r].num_slots, 0)
                 /\ Len(SlotSeries(local[r])) = Max(local[r].num_slots, 0)

\* the packets of all users transmitted so far
Transmitted(f) == SumSeq([k \in 1..Len(f.users) |-> Len(f.delays[f.users[k].id])])

\* run r takes the selection step of a slot
Selects(r) ==
    /\ IsFrame(local[r], "das")
    /\ local[r].pc = "das_select"
    /\ local'[r].pc = "das_sweep"

\* C15: in every slot of simulate_das with at least one user, the user
\* selected is the lowest-index user whose priority beta*W1 + (1-beta)*W2 is
\* the maximum; at most one packet is transmitted, the one at index 0 of the
\* selected user's queue, and the throughput recorded for the slot is that
\* packet's size.
C15_DasSelection ==
    [][\A r \in Runs :
          LET f == local[r]
              n == local'[r]
              prio(k) == FMul(f.beta, W1(f.users[k]))
                         + FMul(FP - f.beta, W2(f.users[k]))
          IN /\ (Selects(r) /\ f.users # <<>>) =>
                   \E s \in 1..Len(f.users) :
                      /\ n.selected_user_id = f.users[s].id
                      /\ \A k \in 1..Len(f.users) : prio(k) <= prio(s)
                      /\ \A k \in 1..(s - 1) : prio(k) < prio(s)
                      /\ Transmitted(n) - Transmitted(f) \in {0, 1}
                      /\ \A k \in 1..Len(f.users) :
                            k # s => n.users[k].packets = f.users[k].packets
                      /\ IF f.users[s].packets # <<>>
                         THEN /\ Transmitted(n) = Transmitted(f) + 1
                              /\ n.users[s].packets = Tail(f.users[s].packets)
                              /\ n.transmitted_bytes = f.users[s].packets[1].size
                         ELSE /\ Transmitted(n) = Transmitted(f)
                              /\ n.users[s].packets = f.users[s].packets
                              /\ n.transmitted_bytes = 0
             /\ (IsFrame(f, "das") /\ f.pc = "das_channel" /\ n.pc # "das_channel") =>
                   /\ Len(n.throughput_history) = Len(f.throughput_history) + 1
                   /\ Last(n.throughput_history) = f.transmitted_bytes]_vars

\* two users have the same, maximal, positive priority; the first of them
\* was selected and its oldest packet transmitted
C15_Witness ==
    \E r \in Runs :
        /\ IsFrame(local[r], "das")
        /\ local[r].pc = "das_sweep"
        /\ Len(local[r].users) >= 2
        /\ local[r].priorities[0] = local[r].priorities[1]
        /\ local[r].priorities[0] > 0
        /\ local[r].selected_user_id = 0
        /\ local[r].transmitted_bytes > 0

\* a queue without its packets whose remaining_time is not positive
RECURSIVE KeptInOrder(_)
KeptInOrder(q) ==
    IF q = <<>> THEN <<>>
    ELSE IF Head(q).remaining_time > 0 THEN <<Head(q)>> \o KeptInOrder(Tail(q))
    ELSE KeptInOrder(Tail(q))

NumExpired(q) == Cardinality({j \in 1..Len(q) : q[j].remaining_time <= 0})

\* C16: the timeout sweep of simulate_das, after the selection of the slot,
\* removes from every user's queue (selected or not) every packet with
\* remaining_time <= 0, adds 1 per removed packet to the owner's timeouts and
\* keeps the other packets in order; from the sweep to the next aging no
\* queue holds a packet with remaining_time <= 0.
C16_TimeoutSweep ==
    [][\A r \in Runs :
          LET f == local[r]
              n == local'[r]
          IN /\ (IsFrame(f, "das") /\ f.pc = "das_sweep" /\ n.pc = "das_channel") =>
                   \A k \in 1..Len(f.users) :
                      LET i == f.users[k].id
                      IN /\ n.users[k].packets = KeptInOrder(f.users[k].packets)
                         /\ n.timeouts[i]
                            = f.timeouts[i] + NumExpired(f.users[k].packets)
                         /\ Len(n.users[k].packets) + NumExpired(f.users[k].packets)
                            = Len(f.users[k].packets)
             /\ (IsFrame(n, "das")
                 /\ n.pc \in {"das_channel", "das_arrive", "das_age", "das_return", "done"}) =>
                   \A k \in 1..Len(n.users) :
                      \A j \in 1..Len(n.users[k].packets) :
                         n.users[k].packets[j].remaining_time > 0]_vars

\* after a sweep: a user that is not the selected one has had timeouts and
\* still holds a packet, one slot from expiring; the selected user has had
\* timeouts too
C16_Witness ==
    \E r \in Runs :
        /\ IsFrame(local[r], "das")
        /\ local[r].pc = "das_channel"
        /\ \E k \in 1..Len(local[r].users) :
              /\ local[r].users[k].id # local[r].selected_user_id
              /\ local[r].timeouts[local[r].users[k].id] > 0
              /\ local[r].users[k].packets # <<>>
              /\ local[r].users[k].packets[1].remaining_time = 1
        /\ local[r].timeouts[local[r].selected_user_id] > 0

\* queue q one slot older: same packets, in order, remaining_time less by 1
IsAged(n, q) ==
    /\ Len(n) = Len(q)
    /\ \A j \in 1..Len(q) :
          /\ n[j].remaining_time = q[j].remaining_time - 1
          /\ n[j].size = q[j].size

\* C17: the life of a packet in simulate_das.  A packet enters a queue only
\* in the arrival block, at the tail, with remaining_time = its owner's PDB;
\* the aging block of every slot (the arrival slot included) takes exactly 1
\* from the remaining_time of every queued packet; a packet leaves only from
\* the head in the selection block, its delay recorded, or in the sweep, its
\* remaining_time having reached 0, counted as a timeout; no other block
\* touches a queue, so a removed packet is never queued again.
C17_PacketLifeCycle ==
    [][\A r \in Runs :
          (IsFrame(local[r], "das") /\ local'[r] # local[r]) =>
             \A k \in 1..Len(local[r].users) :
                LET f == local[r]
                    n == local'[r]
                    i == f.users[k].id
                    q == f.users[k].packets
                    nq == n.users[k].packets
                IN CASE f.pc = "das_arrive" ->
                          /\ n.pc = "das_age"
                          /\ \/ nq = q
                             \/ /\ Len(nq) = Len(q) + 1
                                /\ SubSeq(nq, 1, Len(q)) = q
                                /\ nq[Len(nq)].remaining_time = f.users[k].pdb
                     [] f.pc = "das_age" -> IsAged(nq, q)
                     [] f.pc = "das_select" ->
                          \/ nq = q /\ n.delays[i] = f.delays[i]
                          \/ /\ q # <<>> /\ nq = Tail(q)
                             /\ n.delays[i]
                                = Append(f.delays[i], f.users[k].pdb - q[1].remaining_time)
                     [] f.pc = "das_sweep" ->
                          /\ nq = KeptInOrder(q)
                          /\ \A j \in 1..Len(q) : q[j].remaining_time >= 0
                          /\ n.timeouts[i] - f.timeouts[i] = Len(q) - Len(nq)
                     [] OTHER -> nq = q]_vars

\* a queue holds a packet that has waited several slots behind another; its
\* owner has had a packet transmitted after waiting and another timed out
C17_Witness ==
    \E r \in Runs :
        /\ IsFrame(local[r], "das")
        /\ local[r].pc = "das_channel"
        /\ \E k \in 1..Len(local[r].users) :
              LET u == local[r].users[k]
              IN /\ Len(u.packets) >= 2
                 /\ u.packets[2].remaining_time <= u.pdb - 2
                 /\ local[r].timeouts[u.id] > 0
                 /\ \E j \in 1..Len(local[r].delays[u.id]) :
                       local[r].delays[u.id][j] >= 2

HoldsLivePacket(user) ==
    \E j \in 1..Len(user.packets) : user.packets[j].remaining_time > 0

\* C18: with beta = 1 the priority of a user is W1 alone, whatever its
\* instantaneous_rate and avg_throughput; W1 is 0 for an empty queue and
\* positive for a queue holding a packet with remaining_time > 0 after aging;
\* so in a slot where some user holds such a packet, the selected user's queue
\* is not empty and a packet is transmitted.
C18_PureDelayScheduling ==
    [][\A r \in Runs :
          (Selects(r) /\ local[r].beta = FP) =>
             LET f == local[r]
                 n == local'[r]
             IN /\ \A k \in 1..Len(f.users) :
                      LET u == f.users[k]
                      IN /\ f.priorities[u.id] = W1(u)
                         /\ \A rate \in {1000, 20000} : \A avg \in {1, 10000} :
                               Priority(f.beta, [u EXCEPT !.instantaneous_rate = rate,
                                                          !.avg_throughput = avg])
                               = f.priorities[u.id]
                         /\ u.packets = <<>> => W1(u) = 0
                         /\ HoldsLivePacket(u) => W1(u) > 0
                /\ (\E k \in 1..Len(f.users) : HoldsLivePacket(f.users[k])) =>
                      /\ f.users[n.selected_user_id + 1].packets # <<>>
                      /\ Transmitted(n) = Transmitted(f) + 1
                      /\ n.transmitted_bytes > 0]_vars

\* with beta = 1 a packet was transmitted for a user that is not user 0,
\* while another user, with a better rate to throughput ratio, was passed over
C18_Witness ==
    \E r \in Runs :
        /\ IsFrame(local[r], "das")
        /\ local[r].beta = FP
        /\ local[r].pc = "das_sweep"
        /\ local[r].transmitted_bytes > 0
        /\ local[r].selected_user_id > 0
        /\ \E k \in 1..Len(local[r].users) :
              W2(local[r].users[k]) > W2(local[r].users[local[r].selected_user_id + 1])

\* C19: the selection step of simulate_das changes no user but the selected
\* one, and of that user only the queue and avg_throughput (the EWMA with
\* weight 0.1 on the transmitted size), and only if its queue is not empty;
\* when the selected user's queue is empty nothing is transmitted in the slot
\* (throughput 0, no delay recorded, no avg_throughput updated), whatever the
\* other users hold; the counters of arrivals and timeouts are not touched.
C19_SelectionFrame ==
    [][\A r \in Runs :
          Selects(r) =>
             LET f == local[r]
                 n == local'[r]
                 s == n.selected_user_id + 1
             IN /\ n.timeouts = f.timeouts
                /\ n.total_packets = f.total_packets
                /\ n.throughput_history = f.throughput_history
                /\ Len(n.users) = Len(f.users)
                /\ f.users = <<>> =>
                      (n.transmitted_bytes = 0 /\ n.selected_user_id = f.selected_user_id)
                /\ f.users # <<>> =>
                      /\ \A k \in 1..Len(f.users) : k # s => n.users[k] = f.users[k]
                      /\ \A i \in DOMAIN f.delays :
                            i # n.selected_user_id => n.delays[i] = f.delays[i]
                      /\ [n.users[s] EXCEPT !.packets = f.users[s].packets,
                                            !.avg_throughput = f.users[s].avg_throughput]
                         = f.users[s]
                      /\ IF f.users[s].packets = <<>>
                         THEN /\ n.users = f.users
                              /\ n.delays = f.delays
                              /\ n.transmitted_bytes = 0
                         ELSE n.users[s].avg_throughput
                              = (9 * f.users[s].avg_throughput) \div 10
                                + f.users[s].packets[1].size \div 10]_vars

\* the selected user had nothing queued and nothing was transmitted in the
\* slot, though another user holds a packet that is not expired
C19_Witness ==
    \E r \in Runs :
        /\ IsFrame(local[r], "das")
        /\ local[r].pc = "das_sweep"
        /\ local[r].transmitted_bytes = 0
        /\ local[r].selected_user_id # Unbound
        /\ local[r].users[local[r].selected_user_id + 1].packets = <<>>
        /\ \E k \in 1..Len(local[r].users) : HoldsLivePacket(local[r].users[k])

\* user u after a successful transmission / after a failed one
AfterSuccess(u) ==
    [u EXCEPT !.successful_tx = @ + 1,
              !.avg_throughput = (9 * u.avg_throughput) \div 10 + u.smoothed_cqi \div 10]
AfterFailure(u) == [u EXCEPT !.retransmissions = @ + 1]

\* user s is the first of users with the maximum smoothed_cqi / max(avg, 0.1)
IsFirstBest(users, s) ==
    LET m(k) == (users[k].smoothed_cqi * FP) \div Max(users[k].avg_throughput, 100)
    IN /\ \A k \in 1..Len(users) : m(k) <= m(s)
       /\ \A k \in 1..(s - 1) : m(k) < m(s)

\* C20: in every slot of simulate_csi_smoothing exactly one user is selected,
\* the first with the maximum metric; on success its successful_tx grows by 1
\* and its avg_throughput moves to 0.9 * avg_throughput + 0.1 * smoothed_cqi;
\* on failure its retransmissions grows by 1 and nothing else changes; every
\* other user is unchanged by the selection.
C20_CsiBookkeeping ==
    [][\A r \in Runs :
          (IsFrame(local[r], "csi") /\ local[r].pc = "csi_select"
           /\ local'[r] # local[r]) =>
             LET f == local[r]
                 n == local'[r]
             IN /\ n.pc = "csi_record"
                /\ \E s \in 1..Len(f.users) :
                      /\ n.selected_user = s
                      /\ IsFirstBest(f.users, s)
                      /\ Len(n.users) = Len(f.users)
                      /\ \A k \in 1..Len(f.users) : k # s => n.users[k] = f.users[k]
                      /\ \/ n.users[s] = AfterSuccess(f.users[s])
                         \/ n.users[s] = AfterFailure(f.users[s])]_vars

\* the fragment list is the four fragments of the code, whatever is left of
\* their capacities
SameFragments(fragments) ==
    /\ Len(fragments) = 4
    /\ \A k \in 1..4 :
          /\ fragments[k].id = k - 1
          /\ fragments[k].center_freq = <<3500, 3600, 3800, 2600>>[k]
          /\ 0 <= fragments[k].capacity
          /\ fragments[k].capacity <= <<50, 40, 30, 35>>[k]

AtNominal(fragments) ==
    \A k \in 1..4 : fragments[k].capacity = <<50, 40, 30, 35>>[k]

\* C21: the state of simulate_fragmentation_aware is slot-scoped.  When a
\* slot starts (users being generated, sorted, about to be allocated) the four
\* capacities are 50, 40, 30, 35 and every generated user has allocated = 0;
\* during a slot every capacity is between 0 and its nominal value; the
\* fragment list is always the same four fragments; so what the allocation
\* block works on is the slot's sorted users and the nominal fragments only.
C21_FragSlotScoped ==
    \A r \in Runs :
        (IsFrame(local[r], "frag") /\ local[r].pc # "frag_init") =>
           LET f == local[r]
           IN /\ SameFragments(f.fragments)
              /\ f.pc \in {"frag_generate", "frag_sort", "frag_allocate",
                           "frag_return", "done"}
                    => AtNominal(f.fragments)
              /\ f.pc \in {"frag_sort", "frag_allocate"} =>
                    /\ Len(f.users) = 12
                    /\ \A k \in 1..Len(f.users) : f.users[k].allocated = 0
              /\ f.pc = "frag_allocate" => f.fragments = NewFragments

\* a slot starts with the nominal capacities right after a slot that used up
\* the whole spectrum
C21_Witness ==
    \E r \in Runs :
        /\ IsFrame(local[r], "frag")
        /\ local[r].pc = "frag_allocate"
        /\ local[r].slot >= 1
        /\ Last(local[r].utilization_history) = 100 * FP
        /\ AtNominal(local[r].fragments)
        /\ \E k \in 1..Len(local[r].users) : local[r].users[k].demand > 0

\* the demands of the users before position k, and the capacities of the
\* fragments before position k
DemandBefore(users, k) == SumSeq([j \in 1..(k - 1) |-> users[j].demand])
NominalBefore(k) == SumSeq([j \in 1..(k - 1) |-> <<50, 40, 30, 35>>[j]])

\* C22: the greedy fill of simulate_fragmentation_aware.  After the
\* allocation of a slot, the user at position k of the sorted list holds
\* min(demand, what the users before it left of the 155 units), taken from
\* the fragments in order 0, 1, 2, 3 (a fragment is touched only when the ones
\* before it are empty); so 0 <= allocated <= demand, and a user is left with
\* allocated < demand only if every fragment's capacity is 0.
C22_GreedyFill ==
    \A r \in Runs :
        (IsFrame(local[r], "frag") /\ local[r].pc \in {"frag_metrics", "frag_reset"}) =>
           LET f == local[r]
               total == TotalAllocated(f.users)
           IN /\ \A k \in 1..Len(f.users) :
                    /\ 0 <= f.users[k].allocated
                    /\ f.users[k].allocated <= f.users[k].demand
                    /\ f.users[k].allocated
                       = Min(f.users[k].demand, Max(0, 155 - DemandBefore(f.users, k)))
                    /\ f.users[k].allocated < f.users[k].demand =>
                          \A j \in 1..Len(f.fragments) : f.fragments[j].capacity = 0
              /\ \A j \in 1..Len(f.fragments) :
                    <<50, 40, 30, 35>>[j] - f.fragments[j].capacity
                    = Min(<<50, 40, 30, 35>>[j], Max(0, total - NominalBefore(j)))

\* the spectrum ran out in the middle of a user's demand: that user holds a
\* part of it, a user after it holds nothing, and every fragment is empty
C22_Witness ==
    \E r \in Runs :
        /\ IsFrame(local[r], "frag")
        /\ local[r].pc = "frag_metrics"
        /\ \E k \in 1..Len(local[r].users) :
              /\ 0 < local[r].users[k].allocated
              /\ local[r].users[k].allocated < local[r].users[k].demand
        /\ \E k \in 1..Len(local[r].users) :
              local[r].users[k].allocated = 0 /\ local[r].users[k].demand > 0
        /\ \A j \in 1..4 : local[r].fragments[j].capacity = 0

\* the cluster of clusters that fragment k is in
ClusterOf(clusters, k) ==
    CHOOSE c \in 1..Len(clusters) : \E j \in 1..Len(clusters[c]) : clusters[c][j] = k

\* fragment k is within 150 of a fragment before it that is in cluster c
NearEarlier(fragments, clusters, k, c) ==
    \E j \in 1..Len(clusters[c]) :
        /\ clusters[c][j] < k
        /\ Abs(fragments[k].center_freq - fragments[clusters[c][j]].center_freq) < 150

\* clusters is a partition of the fragments built by the rule: fragments are
\* taken in list order; each joins, at the end, the first existing cluster
\* with a member within 150, or else starts a new, last, cluster
FollowsClusterRule(fragments, clusters) ==
    /\ \A k \in 1..Len(fragments) :
          Cardinality({<<c, j>> \in (1..Len(clusters)) \X (1..Len(fragments)) :
                          j <= Len(clusters[c]) /\ clusters[c][j] = k}) = 1
    /\ \A c \in 1..Len(clusters) :
          /\ clusters[c] # <<>>
          /\ \A j \in 1..(Len(clusters[c]) - 1) : clusters[c][j] < clusters[c][j + 1]
          /\ \A d \in 1..(c - 1) : clusters[d][1] < clusters[c][1]
    /\ \A k \in 1..Len(fragments) :
          LET c == ClusterOf(clusters, k)
              open == {d \in 1..Len(clusters) :
                          clusters[d][1] < k /\ NearEarlier(fragments, clusters, k, d)}
          IN IF open = {} THEN clusters[c][1] = k
             ELSE c \in open /\ \A d \in open : c <= d

\* lists of three fragments with frequencies 100 apart or equal
OtherBands ==
    {[k \in 1..3 |-> [id |-> k - 1, capacity |-> 10, center_freq |-> fr[k]]] :
        fr \in [1..3 -> {3500, 3600, 3700}]}

\* C23: the clustering of simulate_fragmentation_aware partitions the
\* fragments: each fragment is in exactly one cluster, the first existing one
\* with a member less than 150 away, or a new one (clusters are not merged
\* when a fragment is near two of them); for the frequencies 3500, 3600, 3800,
\* 2600 the clusters are [[0, 1], [2], [3]] in every slot.
C23_ClusterPartition ==
    /\ \A fragments \in OtherBands :
          FollowsClusterRule(fragments, BuildClusters(fragments, <<>>, 1))
    /\ \A r \in Runs :
          (/\ IsFrame(local[r], "frag")
           /\ local[r].clustering_enabled
           /\ local[r].pc \in {"frag_metrics", "frag_reset"}
              \/ (local[r].slot > 0 /\ local[r].pc # "frag_init"))
          => /\ FollowsClusterRule(local[r].fragments, local[r].clusters)
             /\ [c \in 1..Len(local[r].clusters) |->
                    [j \in 1..Len(local[r].clusters[c]) |->
                        local[r].fragments[local[r].clusters[c][j]].id]]
                = <<<<0, 1>>, <<2>>, <<3>>>>

\* a later slot of a run with clustering has built the three clusters and
\* taken capacity from the fragment of the last one
C23_Witness ==
    \E r \in Runs :
        /\ IsFrame(local[r], "frag")
        /\ local[r].clustering_enabled
        /\ local[r].pc = "frag_metrics"
        /\ local[r].slot >= 1
        /\ Len(local[r].clusters) = 3
        /\ local[r].fragments[4].capacity < 35

\* weight / deadline + 1 of user a against that of user b, as fractions
ScoreAbove(a, b) == (a.weight + a.deadline) * b.deadline > (b.weight + b.deadline) * a.deadline
ScoreEqual(a, b) == (a.weight + a.deadline) * b.deadline = (b.weight + b.deadline) * a.deadline

\* C24: when the scores of a slot are computed every allocated is 0, so a
\* user's score is weight / deadline + 1; the users are then served in
\* descending order of score, users of equal score in ascending order of id.
C24_ServiceOrder ==
    \A r \in Runs :
        (IsFrame(local[r], "frag") /\ local[r].pc \in {"frag_allocate", "frag_metrics"}) =>
           LET users == local[r].users
           IN /\ {users[k].id : k \in 1..Len(users)} = 0..11
              /\ Len(users) = 12
              /\ \A k \in 1..Len(users) :
                    users[k].score.num * users[k].deadline
                    = (users[k].weight + users[k].deadline) * users[k].score.den
              /\ \A a \in 1..Len(users) : \A b \in (a + 1)..Len(users) :
                    \/ ScoreAbove(users[a], users[b])
                    \/ ScoreEqual(users[a], users[b]) /\ users[a].id < users[b].id

\* the sorted list holds two users of equal score, and a user placed before
\* one of lower id
C24_Witness ==
    \E r \in Runs :
        /\ IsFrame(local[r], "frag")
        /\ local[r].pc = "frag_allocate"
        /\ \E a \in 1..12 : \E b \in (a + 1)..12 :
              ScoreEqual(local[r].users[a], local[r].users[b])
        /\ \E a \in 1..12 : \E b \in (a + 1)..12 :
              local[r].users[a].id > local[r].users[b].id

NumOfClass(users, class) ==
    Cardinality({k \in 1..Len(users) : users[k].service_type = class})

\* C25: the classification of a simulate_das user is fixed: the user created
\* at index i has id i and is URLLC with pdb 5 for i < 5, eMBB with pdb 20 for
\* i < 10, mMTC with pdb 50 otherwise; no step of a run changes the id, the
\* class or the pdb of a user; with num_users = 15 there are 5 users of each
\* class.
C25_ClassificationFixed ==
    [][\A r \in Runs :
          IsFrame(local'[r], "das") =>
             LET n == local'[r]
             IN /\ \A k \in 1..Len(n.users) :
                      LET u == n.users[k]
                      IN /\ u.id = k - 1
                         /\ u.id < 5 => (u.service_type = "URLLC" /\ u.pdb = 5)
                         /\ (5 <= u.id /\ u.id < 10) => (u.service_type = "eMBB" /\ u.pdb = 20)
                         /\ u.id >= 10 => (u.service_type = "mMTC" /\ u.pdb = 50)
                /\ (IsFrame(local[r], "das") /\ local[r].pc # "das_init") =>
                      /\ Len(n.users) = Len(local[r].users)
                      /\ \A k \in 1..Len(n.users) :
                            /\ n.users[k].id = local[r].users[k].id
                            /\ n.users[k].service_type = local[r].users[k].service_type
                            /\ n.users[k].pdb = local[r].users[k].pdb
                /\ (n.num_users = 15 /\ n.pc # "das_init") =>
                      /\ NumOfClass(n.users, "URLLC") = 5
                      /\ NumOfClass(n.users, "eMBB") = 5
                      /\ NumOfClass(n.users, "mMTC") = 5]_vars

\* a run with 15 users is over; packets of users of the three classes have
\* been queued, transmitted or timed out on the way
C25_Witness ==
    \E r \in Runs :
        /\ IsFrame(local[r], "das") /\ Done(r)
        /\ local[r].num_users = 15
        /\ Len(local[r].users) = 15
        /\ \A class \in {"URLLC", "eMBB", "mMTC"} :
              \E k \in 1..15 :
                 /\ local[r].users[k].service_type = class
                 /\ local[r].total_packets[k - 1] > 0

\* the clusters of a run, as one list of fragment positions
RECURSIVE Flatten(_)
Flatten(clusters) ==
    IF clusters = <<>> THEN <<>> ELSE Head(clusters) \o Flatten(Tail(clusters))

\* the slot of frame f, allocated and measured in the other mode
OtherMode(f, g) ==
    FragMetricsFn(FragAllocateFn([f EXCEPT !.clustering_enabled = ~@], g).f, g).f

C27_UrllcAlwaysServed ==
    \A r \in Runs :
        IsFrame(local[r], "frag") =>
            /\ local[r].pc \in {"frag_metrics", "frag_reset"} =>
                  /\ Len(UrllcUsers(local[r].users)) = 4
                  /\ \A k \in 1..Len(local[r].users) :
                        local[r].users[k].service_type = "URLLC" =>
                            local[r].users[k].allocated = local[r].users[k].demand
            /\ \A k \in 1..Len(local[r].urllc_compliance_history) :
                  local[r].urllc_compliance_history[k] = Fix(100)

\* a slot has been measured in which the four URLLC users asked for the most
\* they can ask for (14 each) and a user of another class was left short
C27_Witness ==
    \E r \in Runs :
        /\ IsFrame(local[r], "frag") /\ local[r].pc = "frag_reset"
        /\ Len(local[r].urllc_compliance_history) = local[r].slot + 1
        /\ \A k \in 1..Len(local[r].users) :
              local[r].users[k].service_type = "URLLC" =>
                  local[r].users[k].demand = 14
        /\ \E k \in 1..Len(local[r].users) :
              /\ local[r].users[k].service_type # "URLLC"
              /\ local[r].users[k].allocated < local[r].users[k].demand

ClassRank(user) ==
    IF user.service_type = "URLLC" THEN 1
    ELSE IF user.service_type = "eMBB" THEN 2 ELSE 3

\* C28: in every slot the score of every URLLC user is greater than the score
\* of every eMBB user, which is greater than the score of every mMTC user; the
\* sorted list serves the 4 URLLC users, then the 4 eMBB users, then the 4
\* mMTC users; a user left with allocated < demand is an eMBB or mMTC user.
C28_ClassOrder ==
    \A r \in Runs :
        (IsFrame(local[r], "frag")
            /\ local[r].pc \in {"frag_allocate", "frag_metrics", "frag_reset"}) =>
            LET users == local[r].users
            IN /\ Len(users) = 12
               /\ \A a, b \in 1..12 :
                     ClassRank(users[a]) < ClassRank(users[b]) =>
                         /\ ScoreLess(users[b].score, users[a].score)
                         /\ ScoreAbove(users[a], users[b])
                         /\ a < b
               /\ \A k \in 1..12 :
                     ClassRank(users[k]) = IF k <= 4 THEN 1 ELSE IF k <= 8 THEN 2 ELSE 3
               /\ local[r].pc # "frag_allocate" =>
                     \A k \in 1..12 :
                         users[k].allocated < users[k].demand =>
                             users[k].service_type \in {"eMBB", "mMTC"}

\* a slot has been allocated in which the URLLC users had the longest URLLC
\* deadline (5), an eMBB user the shortest eMBB deadline (10), and both an
\* eMBB user and an mMTC user were left short
C28_Witness ==
    \E r \in Runs :
        /\ IsFrame(local[r], "frag") /\ local[r].pc = "frag_metrics"
        /\ \E a, b \in 1..12 :
              /\ local[r].users[a].service_type = "URLLC"
              /\ local[r].users[a].deadline = 5
              /\ local[r].users[b].service_type = "eMBB"
              /\ local[r].users[b].deadline = 10
        /\ \E a, b \in 1..12 :
              /\ local[r].users[a].service_type = "eMBB"
              /\ local[r].users[a].allocated < local[r].users[a].demand
              /\ local[r].users[b].service_type = "mMTC"
              /\ local[r].users[b].allocated < local[r].users[b].demand

TotalDemand(users) == SumSeq([k \in 1..Len(users) |-> users[k].demand])
CapacityLeft(fragments) ==
    SumSeq([k \in 1..Len(fragments) |-> fragments[k].capacity])

\* C29: in every slot and in both modes the users are given, in total,
\* min(sum of the 12 demands, 155), which is what line 289 computes and line
\* 295 records; capacity is left over after the allocation only if every user
\* has allocated = demand.
C29_WorkConserving ==
    \A r \in Runs :
        (IsFrame(local[r], "frag") /\ local[r].pc \in {"frag_metrics", "frag_reset"}) =>
            LET f == local[r]
                total == Min(TotalDemand(f.users), 155)
            IN /\ Len(f.users) = 12
               /\ TotalAllocated(f.users) = total
               /\ CapacityLeft(f.fragments) = 155 - total
               /\ f.pc = "frag_reset" =>
                     /\ f.total_allocated = total
                     /\ Last(f.throughput_history) = total
               /\ CapacityLeft(f.fragments) > 0 =>
                     \A k \in 1..12 : f.users[k].allocated = f.users[k].demand

\* a slot has been measured in which the users asked for more than 155 units:
\* all 155 were given out and a user was left short
C29_Witness ==
    \E r \in Runs :
        /\ IsFrame(local[r], "frag") /\ local[r].pc = "frag_reset"
        /\ TotalDemand(local[r].users) > 155
        /\ local[r].total_allocated = 155
        /\ CapacityLeft(local[r].fragments) = 0
        /\ \E k \in 1..12 : local[r].users[k].allocated < local[r].users[k].demand

\* the number of slots a queued packet has been aged in: a packet that arrived
\* in slot t has Waited = s - t + 1 once slot s has aged it
Waited(user, p) == user.pdb - p.remaining_time

\* C30: a packet queued at a user with budget pdb has, at the end of a slot,
\* been queued at the end of at most pdb - 1 slots, none of them before slot
\* 0: a packet that arrived in slot t is out of the queue, transmitted or
\* timed out, by the end of slot t + pdb - 1.  A packet arrives with
\* remaining_time = pdb, every queued packet is aged by one in every slot, and
\* the sweep of a slot removes the packets that have been aged pdb times.
C30_BoundedWaiting ==
    [][\A r \in Runs :
          IsFrame(local'[r], "das") =>
             LET n == local'[r]
                 o == local[r]
             IN /\ \A k \in 1..Len(n.users) :
                      \A j \in 1..Len(n.users[k].packets) :
                         LET u == n.users[k]
                             waited == Waited(u, u.packets[j])
                         IN /\ n.pc = "das_age" =>
                                  (waited \in 0..(u.pdb - 1) /\ waited <= n.slot)
                            /\ n.pc \in {"das_priorities", "das_select", "das_sweep"} =>
                                  (waited \in 1..u.pdb /\ waited <= n.slot + 1)
                            /\ n.pc = "das_channel" =>
                                  (waited \in 1..(u.pdb - 1) /\ waited <= n.slot + 1)
                            /\ n.pc \in {"das_arrive", "das_return", "done"} =>
                                  (waited \in 1..(u.pdb - 1) /\ waited <= n.slot)
                /\ (IsFrame(o, "das") /\ o.pc = "das_arrive") =>
                      \A k \in 1..Len(n.users) :
                         \/ n.users[k].packets = o.users[k].packets
                         \/ /\ Len(n.users[k].packets) = Len(o.users[k].packets) + 1
                            /\ Waited(n.users[k], Last(n.users[k].packets)) = 0
                            /\ \A j \in 1..Len(o.users[k].packets) :
                                  n.users[k].packets[j] = o.users[k].packets[j]
                /\ (IsFrame(o, "das") /\ o.pc = "das_age") =>
                      \A k \in 1..Len(n.users) :
                         /\ Len(n.users[k].packets) = Len(o.users[k].packets)
                         /\ \A j \in 1..Len(n.users[k].packets) :
                               Waited(n.users[k], n.users[k].packets[j])
                                  = Waited(o.users[k], o.users[k].packets[j]) + 1
                /\ (IsFrame(o, "das") /\ o.pc = "das_sweep") =>
                      \A k \in 1..Len(n.users) :
                         n.users[k].packets
                            = SelectSeq(o.users[k].packets,
                                        LAMBDA p : Waited(o.users[k], p) < o.users[k].pdb)]_vars

\* a slot has ended with a packet that has been queued at the end of pdb - 1
\* slots (remaining_time 1), at a user one of whose packets timed out before
C30_Witness ==
    \E r \in Runs :
        /\ IsFrame(local[r], "das") /\ local[r].pc = "das_channel"
        /\ \E k \in 1..Len(local[r].users) :
              /\ local[r].timeouts[local[r].users[k].id] > 0
              /\ \E j \in 1..Len(local[r].users[k].packets) :
                    local[r].users[k].packets[j].remaining_time = 1

\* C31: every delay recorded by simulate_das is an integer in 1..pdb of the
\* user it is recorded for; the delay recorded by a selection is pdb -
\* remaining_time of the head packet it removes, so a head packet aged to 0 is
\* transmitted with delay pdb, leaves the queue before the sweep and is not
\* counted as a timeout (every packet of a user is queued, transmitted or
\* timed out, exactly one of them); the returned avg_urllc_delay is 0.0 or
\* lies in [1, 5].
C31_RecordedDelays ==
    [][\A r \in Runs :
          IsFrame(local'[r], "das") =>
             LET f == local[r]
                 n == local'[r]
             IN /\ \A k \in 1..Len(n.users) :
                      /\ \A j \in 1..Len(n.delays[n.users[k].id]) :
                            n.delays[n.users[k].id][j] \in 1..n.users[k].pdb
                      /\ n.pc # "das_init" => Accounted(n, k)
                /\ Selects(r) =>
                      \A k \in 1..Len(f.users) :
                         LET i == f.users[k].id
                         IN /\ n.timeouts[i] = f.timeouts[i]
                            /\ \/ /\ n.delays[i] = f.delays[i]
                                  /\ n.users[k].packets = f.users[k].packets
                               \/ /\ i = n.selected_user_id
                                  /\ f.users[k].packets # <<>>
                                  /\ n.users[k].packets = Tail(f.users[k].packets)
                                  /\ n.delays[i]
                                     = Append(f.delays[i],
                                              f.users[k].pdb
                                                 - Head(f.users[k].packets).remaining_time)
                /\ n.pc = "done" =>
                      /\ ~result'[r].avg_urllc_delay.nan
                      /\ \/ result'[r].avg_urllc_delay = Float(0)
                         \/ result'[r].avg_urllc_delay.val \in Fix(1)..Fix(5)]_vars

\* a run is over in which a URLLC packet was transmitted in its arrival slot
\* (delay 1), a URLLC packet was transmitted with its remaining_time at 0
\* (delay 5 = pdb), and the returned avg_urllc_delay is not 0.0
C31_Witness ==
    \E r \in Runs :
        /\ IsFrame(local[r], "das") /\ Done(r)
        /\ \E k \in 1..Len(local[r].users) :
              /\ local[r].users[k].service_type = "URLLC"
              /\ \E j \in 1..Len(local[r].delays[local[r].users[k].id]) :
                    local[r].delays[local[r].users[k].id][j] = local[r].users[k].pdb
        /\ \E k \in 1..Len(local[r].users) :
              /\ local[r].users[k].service_type = "URLLC"
              /\ \E j \in 1..Len(local[r].delays[local[r].users[k].id]) :
                    local[r].delays[local[r].users[k].id][j] = 1
        /\ result[r].avg_urllc_delay.val >= Fix(1)

\* the remaining_time values of queue q grow strictly from head to tail
StrictlyIncreasing(q) ==
    \A a, b \in 1..Len(q) : a < b => q[a].remaining_time < q[b].remaining_time

\* C32: in every state of simulate_das the remaining_time values of a user's
\* queue are strictly increasing from head to tail and not negative; at the
\* end of a slot (after the sweep) they lie in 1..pdb-1 and the queue holds at
\* most pdb-1 packets; the only packet a sweep can find expired is the head of
\* the queue, and a sweep adds at most one timeout to a user; no other block
\* changes the timeouts.
C32_QueueShape ==
    [][\A r \in Runs :
          IsFrame(local'[r], "das") =>
             LET f == local[r]
                 n == local'[r]
             IN /\ \A k \in 1..Len(n.users) :
                      LET q == n.users[k].packets
                      IN /\ StrictlyIncreasing(q)
                         /\ \A j \in 1..Len(q) : q[j].remaining_time >= 0
                         /\ n.pc \in {"das_channel", "das_arrive", "das_return", "done"} =>
                               /\ \A j \in 1..Len(q) :
                                     q[j].remaining_time \in 1..(n.users[k].pdb - 1)
                               /\ Len(q) <= n.users[k].pdb - 1
                /\ (IsFrame(f, "das") /\ f.pc = "das_sweep") =>
                      \A k \in 1..Len(f.users) :
                         LET q == f.users[k].packets
                             i == f.users[k].id
                         IN /\ \A j \in 1..Len(q) : q[j].remaining_time <= 0 => j = 1
                            /\ n.timeouts[i] \in {f.timeouts[i], f.timeouts[i] + 1}
                            /\ n.timeouts[i] = f.timeouts[i] + 1 <=>
                                  (q # <<>> /\ Head(q).remaining_time = 0)
                            /\ n.timeouts[i] = f.timeouts[i] + 1 =>
                                  n.users[k].packets = Tail(q)
                /\ (IsFrame(f, "das") /\ f.pc \notin {"das_init", "das_sweep"}) =>
                      n.timeouts = f.timeouts]_vars

\* a sweep is about to run on a user that holds several packets, the head of
\* the queue at remaining_time 0, and that has had a timeout before
C32_Witness ==
    \E r \in Runs :
        /\ IsFrame(local[r], "das") /\ local[r].pc = "das_sweep"
        /\ \E k \in 1..Len(local[r].users) :
              /\ Len(local[r].users[k].packets) >= 2
              /\ local[r].users[k].packets[1].remaining_time = 0
              /\ local[r].timeouts[local[r].users[k].id] > 0

====
